---------------------------- MODULE Spec2Model ----------------------------
(***************************************************************************)
(* A model of handler/ezBIDS_core/ezBIDS_core.py: the pipeline that turns  *)
(* the uploaded sidecar files into acquisition records, resolves subject   *)
(* and session indices, groups the records into unique series, classifies  *)
(* every series against the rule catalog, derives its entities and         *)
(* propagates the result to the acquisitions.                              *)
(*                                                                         *)
(* Python strings the code sorts, splits or searches are sequences of      *)
(* one-character strings; strings the code only compares for equality or   *)
(* tests for membership (image-type flags, entity keys, datatype and       *)
(* suffix names) are TLA+ strings.  EchoTime and RepetitionTime are        *)
(* fixed-point numbers in hundredths.                                      *)
(***************************************************************************)
EXTENDS Integers, Sequences, FiniteSets, TLC

VARIABLES
    stage,                \* the next statement of the module-level script (l. 2167-2266)
    bids_compliant,       \* "yes" / "no" (l. 50)
    uploaded_json_list,   \* the manifest: the sidecar files, in discovery order (l. 2188)
    uploaded_files_list,  \* the files modify_uploaded_dataset_list kept (l. 2193)
    data_type,            \* the data_type modify_uploaded_dataset_list returned (l. 2193)
    dataset_list,         \* the acquisition records (l. 2196)
    unique_series,        \* dataset_list_unique_series, as positions in dataset_list:
                          \* the list holds the same dict objects as dataset_list (l. 1044)
    prior,                \* what was fixed before the run: the subject/session indices
                          \* an earlier run reported, or today_date (l. 55)
    scanned,              \* per unique series, what the scan of the rule catalog did
                          \* (l. 1565-1635): the entries evaluated and the outcome
    objects_list          \* the objects modify_objects_info made (l. 2229)

vars == <<stage, bids_compliant, uploaded_json_list, uploaded_files_list,
          data_type, dataset_list, unique_series, prior, scanned, objects_list>>

-----------------------------------------------------------------------------
(* Bounds of the model *)

\* the longest dataset_list the series deduplicator is run on
MaxAcq == 3

-----------------------------------------------------------------------------
(* Strings *)

\* the Python string written as the TLA+ string s: the sequence of its characters
Py(s) == [i \in 1..Len(s) |-> SubSeq(s, i, i)]

\* the characters of the model's strings, in ASCII order
Chars == <<"-", ".", "/",
           "0", "1", "2", "3", "4", "5", "6", "7", "8", "9", ":",
           "A", "B", "C", "D", "E", "F", "G", "H", "I", "J", "K", "L", "M",
           "N", "O", "P", "Q", "R", "S", "T", "U", "V", "W", "X", "Y", "Z",
           "_",
           "a", "b", "c", "d", "e", "f", "g", "h", "i", "j", "k", "l", "m",
           "n", "o", "p", "q", "r", "s", "t", "u", "v", "w", "x", "y", "z">>

CharSet == {Chars[i] : i \in 1..Len(Chars)}

Ord == [c \in CharSet |-> CHOOSE i \in 1..Len(Chars) : Chars[i] = c]

IsDigit(c) == Ord[c] >= Ord["0"] /\ Ord[c] <= Ord["9"]
IsUpper(c) == Ord[c] >= Ord["A"] /\ Ord[c] <= Ord["Z"]
IsLower(c) == Ord[c] >= Ord["a"] /\ Ord[c] <= Ord["z"]
IsAlpha(c) == IsUpper(c) \/ IsLower(c)
IsAlnum(c) == IsAlpha(c) \/ IsDigit(c)

\* str.lower()
LowerChar(c) == IF IsUpper(c) THEN Chars[Ord[c] - Ord["A"] + Ord["a"]] ELSE c
Lower(s) == [i \in 1..Len(s) |-> LowerChar(s[i])]

\* s[i:] and s[:i] with 1-based positions
Drop(s, n) == SubSeq(s, n + 1, Len(s))
Take(s, n) == SubSeq(s, 1, n)

\* sub occurs in s at position i
MatchAt(s, sub, i) ==
    /\ i >= 1
    /\ i + Len(sub) - 1 <= Len(s)
    /\ \A k \in 1..Len(sub) : s[i + k - 1] = sub[k]

\* sub in s
Contains(s, sub) == \E i \in 1..(Len(s) - Len(sub) + 1) : MatchAt(s, sub, i)

\* the position of the first / last occurrence of sub in s, 0 when there is none
FirstPos(s, sub) ==
    IF Contains(s, sub)
    THEN CHOOSE i \in 1..Len(s) : MatchAt(s, sub, i) /\ \A j \in 1..(i - 1) : ~MatchAt(s, sub, j)
    ELSE 0
LastPos(s, sub) ==
    IF Contains(s, sub)
    THEN CHOOSE i \in 1..Len(s) : MatchAt(s, sub, i) /\ \A j \in (i + 1)..Len(s) : ~MatchAt(s, sub, j)
    ELSE 0

\* s.split(sub)[0] and s.split(sub)[-1]
SplitFirst(s, sub) == IF Contains(s, sub) THEN Take(s, FirstPos(s, sub) - 1) ELSE s
SplitLast(s, sub) == IF Contains(s, sub) THEN Drop(s, LastPos(s, sub) + Len(sub) - 1) ELSE s

\* s.replace(sub, ""): the occurrences are removed left to right, without rescanning
RECURSIVE Remove(_, _)
Remove(s, sub) ==
    IF s = <<>> THEN <<>>
    ELSE IF MatchAt(s, sub, 1) THEN Remove(Drop(s, Len(sub)), sub)
    ELSE <<Head(s)>> \o Remove(Tail(s), sub)

\* re.sub("[^A-Za-z0-9]+", "", s)
RECURSIVE StripNonAlnum(_)
StripNonAlnum(s) ==
    IF s = <<>> THEN <<>>
    ELSE IF IsAlnum(Head(s)) THEN <<Head(s)>> \o StripNonAlnum(Tail(s))
    ELSE StripNonAlnum(Tail(s))

\* re.split("[^a-zA-Z0-9]", s)[0]
RECURSIVE AlnumPrefix(_)
AlnumPrefix(s) ==
    IF s = <<>> \/ ~IsAlnum(Head(s)) THEN <<>>
    ELSE <<Head(s)>> \o AlnumPrefix(Tail(s))

\* a < b for Python strings (code-point order)
RECURSIVE StrLess(_, _)
StrLess(a, b) ==
    IF b = <<>> THEN FALSE
    ELSE IF a = <<>> THEN TRUE
    ELSE IF Head(a) # Head(b) THEN Ord[Head(a)] < Ord[Head(b)]
    ELSE StrLess(Tail(a), Tail(b))

\* a < b for tuples of strings (itemgetter keys)
RECURSIVE KeyLess(_, _)
KeyLess(a, b) ==
    IF a = <<>> THEN FALSE
    ELSE IF Head(a) # Head(b) THEN StrLess(Head(a), Head(b))
    ELSE KeyLess(Tail(a), Tail(b))

\* str(n) for 0 <= n <= 99
Digit(n) == Chars[Ord["0"] + n]
Str(n) == IF n < 10 THEN <<Digit(n)>> ELSE <<Digit(n \div 10), Digit(n % 10)>>

\* sorted(pairs, key=...): a stable sort of <<key, value>> pairs on the key, a
\* tuple of strings
RECURSIVE InsertSorted(_, _)
InsertSorted(x, s) ==
    IF s = <<>> THEN <<x>>
    ELSE IF KeyLess(x[1], Head(s)[1]) THEN <<x>> \o s
    ELSE <<Head(s)>> \o InsertSorted(x, Tail(s))

RECURSIVE SortPairs(_)
SortPairs(s) ==
    IF s = <<>> THEN <<>>
    ELSE InsertSorted(s[Len(s)], SortPairs(Take(s, Len(s) - 1)))

Values(pairs) == [i \in 1..Len(pairs) |-> pairs[i][2]]

-----------------------------------------------------------------------------
(* Optional values: None is the empty sequence, a value v is <<v>> *)

None == <<>>
Some(v) == <<v>>

-----------------------------------------------------------------------------
(* Normalizer: generate_dataset_list *)

NA == Py("n/a")
SentinelDateTime ==
    Py("0000-00-00T00:00:00.000000")
SentinelDate == Py("0000-00-00")
SentinelTime == Py("00:00:00.000000")

sub_search_terms == << Py("subject"), Py("subj"), Py("sub") >>
ses_search_terms == << Py("session"), Py("sess"), Py("ses") >>

\* "key" in json_data
Has(json, key) == key \in json.keys

\* the first term of terms that occurs in value.lower(), 0 when none does: the
\* inner loop of l. 568-575 stops at its first hit
FirstTerm(value, terms) ==
    IF \E i \in 1..Len(terms) : Contains(Lower(value), terms[i])
    THEN CHOOSE i \in 1..Len(terms) :
            /\ Contains(Lower(value), terms[i])
            /\ \A j \in 1..(i - 1) : ~Contains(Lower(value), terms[j])
    ELSE 0

\* value.lower().split(term)[-1][0] raises IndexError when value ends with term
TokenFails(value, terms) ==
    FirstTerm(value, terms) # 0
        /\ SplitLast(Lower(value), terms[FirstTerm(value, terms)]) = <<>>

\* l. 570-574: the alphanumeric run after the last occurrence of the term, a
\* separator character right after the term skipped
TokenAfter(value, term) ==
    LET low == Lower(value)
        item == SplitLast(low, term)[1]
    IN  IF ~IsAlpha(item) /\ ~IsDigit(item)
        THEN AlnumPrefix(SplitLast(low, term \o <<item>>))
        ELSE AlnumPrefix(SplitLast(low, term))

\* the loop of l. 567-575 (and l. 589-597) over [json_file, patient_name,
\* patient_id]: every value that holds a term assigns the label again
RECURSIVE SearchLabel(_, _, _)
SearchLabel(values, terms, label) ==
    IF values = <<>> THEN label
    ELSE SearchLabel(Tail(values), terms,
                     IF FirstTerm(Head(values), terms) # 0
                     THEN TokenAfter(Head(values), terms[FirstTerm(Head(values), terms)])
                     ELSE label)

\* s.split("/")
RECURSIVE SplitSlash(_)
SplitSlash(s) ==
    IF ~Contains(s, <<"/">>) THEN <<s>>
    ELSE <<SplitFirst(s, <<"/">>)>> \o SplitSlash(Drop(s, FirstPos(s, <<"/">>)))

\* l. 585: [x for x in json_file.split("/") if ".json" not in x]
directory_struct(json_file) ==
    SelectSeq(SplitSlash(json_file), LAMBDA x : ~Contains(x, Py(".json")))

\* l. 566-586 and 600: the subject label of a sidecar
ResolveSubject(json_file, patient_name, patient_id) ==
    LET found == SearchLabel(<<json_file, patient_name, patient_id>>, sub_search_terms, NA)
        byId == IF found # NA THEN found
                ELSE IF patient_name # NA THEN patient_name
                ELSE IF patient_id # NA THEN patient_id
                ELSE NA
        byDir == IF byId # NA THEN byId
                 ELSE directory_struct(json_file)[Len(directory_struct(json_file))]
    IN  StripNonAlnum(byDir)

\* l. 588-597 and 601: the session label of a sidecar
ResolveSession(json_file, patient_name, patient_id) ==
    StripNonAlnum(SearchLabel(<<json_file, patient_name, patient_id>>, ses_search_terms, <<>>))

\* l. 642: the pixel types the Normalizer accepts ("<i2", "<u2", "<f4", "int16", "uint16")
NormalizerDtypes == {"int16", "uint16", "float32"}

\* what generate_dataset_list raises on: the label searches (l. 570, 592) and
\* the directory fallback (l. 586)
GenerateFails(f) ==
    LET json == f.json
        patient_name == IF Has(json, "PatientName") THEN json.PatientName ELSE NA
        patient_id == IF Has(json, "PatientID") THEN json.PatientID ELSE NA
        values == <<f.json_path, patient_name, patient_id>>
    IN  \/ \E i \in 1..3 : TokenFails(values[i], sub_search_terms)
        \/ \E i \in 1..3 : TokenFails(values[i], ses_search_terms)
        \/ /\ SearchLabel(values, sub_search_terms, NA) = NA
           /\ patient_name = NA
           /\ patient_id = NA
           /\ directory_struct(f.json_path) = <<>>

\* l. 251-353 and 473-489, for an image whose axes are R, A, S: the label of
\* the dir entity for a phase encoding direction given as i, j or k
determine_direction(pe_direction) ==
    CASE pe_direction = "i" -> Py("LR")
      [] pe_direction = "i-" -> Py("RL")
      [] pe_direction = "j" -> Py("PA")
      [] pe_direction = "j-" -> Py("AP")
      [] pe_direction = "k" -> Py("IS")
      [] pe_direction = "k-" -> Py("SI")

\* l. 463-744: the acquisition record of one sidecar file f
Acquisition(f, dt) ==
    LET json == f.json
        patient_name == IF Has(json, "PatientName") THEN json.PatientName ELSE NA
        patient_id == IF Has(json, "PatientID") THEN json.PatientID ELSE NA
        hasADT == Has(json, "AcquisitionDateTime")
        date0 == IF hasADT THEN SplitFirst(json.AcquisitionDateTime, <<"T">>) ELSE SentinelDate
        time0 == IF hasADT THEN SplitLast(json.AcquisitionDateTime, <<"T">>) ELSE SentinelTime
        time1 == IF Has(json, "AcquisitionTime") /\ time0 = SentinelTime
                 THEN json.AcquisitionTime ELSE time0
        series_number == IF Has(json, "SeriesNumber") THEN json.SeriesNumber ELSE 0
    IN  [ PatientName |-> patient_name,
          PatientID |-> patient_id,
          subject |-> ResolveSubject(f.json_path, patient_name, patient_id),
          session |-> ResolveSession(f.json_path, patient_name, patient_id),
          SeriesNumber |-> series_number,
          ModifiedSeriesNumber |->
              IF series_number < 10 THEN <<"0">> \o Str(series_number) ELSE Str(series_number),
          AcquisitionDateTime |-> IF hasADT THEN json.AcquisitionDateTime ELSE SentinelDateTime,
          AcquisitionDate |-> date0,
          AcquisitionTime |-> time1,
          SeriesDescription |-> IF Has(json, "SeriesDescription") THEN json.SeriesDescription ELSE NA,
          ProtocolName |-> IF Has(json, "ProtocolName") THEN json.ProtocolName ELSE NA,
          descriptor |-> IF Has(json, "SeriesDescription") THEN "SeriesDescription" ELSE "ProtocolName",
          Modality |-> IF Has(json, "Modality") THEN json.Modality ELSE "MR",
          ImageType |-> IF Has(json, "ImageType") THEN json.ImageType ELSE <<>>,
          RepetitionTime |-> IF Has(json, "RepetitionTime") THEN json.RepetitionTime ELSE 0,
          EchoNumber |-> IF Has(json, "EchoNumber") THEN Some(json.EchoNumber) ELSE None,
          EchoTime |-> IF Has(json, "EchoTime") THEN json.EchoTime ELSE 0,
          direction |-> IF Has(json, "PhaseEncodingDirection")
                        THEN determine_direction(json.PhaseEncodingDirection) ELSE <<>>,
          datatype |-> "",
          suffix |-> "",
          subject_idx |-> 0,
          session_idx |-> 0,
          series_idx |-> 0,
          exclude |-> FALSE,
          NumVolumes |-> IF f.image.ndim >= 4 THEN f.image.volumes ELSE 1,
          error |-> None,
          IntendedFor |-> None,
          B0FieldIdentifier |-> None,
          B0FieldSource |-> None,
          message |-> None,
          type |-> dt,
          ndim |-> f.image.ndim,
          dtype |-> f.image.dtype,
          valid_image |-> f.image.dtype \in NormalizerDtypes,
          negdim |-> f.image.negdim,
          json_path |-> f.json_path,
          bvec |-> "bvec" \in f.companions,
          sidecar |-> json ]

-----------------------------------------------------------------------------
(* Upload filter: modify_uploaded_dataset_list *)

\* the length of the run of digits s starts with
RECURSIVE DigitRun(_)
DigitRun(s) == IF s = <<>> \/ ~IsDigit(Head(s)) THEN 0 ELSE 1 + DigitRun(Tail(s))

\* int(s) of a string of digits
RECURSIVE IntOf(_)
IntOf(s) == IF s = <<>> THEN 0 ELSE 10 * IntOf(Take(s, Len(s) - 1)) + (Ord[s[Len(s)]] - Ord["0"])

\* the order of natsorted(): runs of digits compare as numbers, the text
\* between them as strings, a key that ends first is the smaller one
RECURSIVE NatLess(_, _)
NatLess(a, b) ==
    IF b = <<>> THEN FALSE
    ELSE IF a = <<>> THEN TRUE
    ELSE IF IsDigit(Head(a)) /\ IsDigit(Head(b))
    THEN IF IntOf(Take(a, DigitRun(a))) # IntOf(Take(b, DigitRun(b)))
         THEN IntOf(Take(a, DigitRun(a))) < IntOf(Take(b, DigitRun(b)))
         ELSE NatLess(Drop(a, DigitRun(a)), Drop(b, DigitRun(b)))
    ELSE IF IsDigit(Head(a)) THEN TRUE
    ELSE IF IsDigit(Head(b)) THEN FALSE
    ELSE IF Head(a) # Head(b) THEN Ord[Head(a)] < Ord[Head(b)]
    ELSE NatLess(Tail(a), Tail(b))

\* natsorted() of a list of files on their paths (a stable sort)
RECURSIVE NatInsert(_, _)
NatInsert(f, s) ==
    IF s = <<>> THEN <<f>>
    ELSE IF NatLess(f.json_path, Head(s).json_path) THEN <<f>> \o s
    ELSE <<Head(s)>> \o NatInsert(f, Tail(s))

RECURSIVE NatSorted(_)
NatSorted(s) ==
    IF s = <<>> THEN <<>>
    ELSE NatInsert(s[Len(s)], NatSorted(Take(s, Len(s) - 1)))

\* l. 390-391: the converters whose sidecars are accepted
AcceptedConverter(json) ==
    Has(json, "ConversionSoftware") /\ json.ConversionSoftware \in {"dcm2niix", "pypet2bids"}

\* l. 377-381: Philips files and the tool's own outputs are dropped, the rest
\* is put in natural order
KeptJsons(json_list) ==
    NatSorted(SelectSeq(json_list, LAMBDA f :
        /\ ~Contains(Lower(f.json_path), Py("parrec"))
        /\ ~Contains(f.json_path, Py("finalized.json"))
        /\ ~Contains(f.json_path,
                     Py("ezBIDS_core.json"))))

\* l. 384-418: what one iteration of the loop leaves in data_type
FileDataType(f) == IF f.parsable /\ AcceptedConverter(f.json) THEN "" ELSE "exclude"

\* l. 384-423: the files kept (an accepted sidecar with a file beside it) and
\* the data_type of the last iteration of the loop
modify_uploaded_dataset_list(json_list) ==
    LET kept == KeptJsons(json_list)
    IN  [ uploaded_files_list |->
              SelectSeq(kept, LAMBDA f : FileDataType(f) = "" /\ f.companions # {}),
          data_type |-> FileDataType(kept[Len(kept)]) ]

-----------------------------------------------------------------------------
(* Normalizer: the loop and the sort of generate_dataset_list *)

\* l. 747-751
GenerateKey(a) == <<a.AcquisitionDate, a.subject, a.session, a.ModifiedSeriesNumber, a.json_path>>

\* l. 463-753
generate_dataset_list(files, dt) ==
    Values(SortPairs([i \in 1..Len(files) |->
        <<GenerateKey(Acquisition(files[i], dt)), Acquisition(files[i], dt)>>]))

-----------------------------------------------------------------------------
(* Identity Resolver: organize_dataset *)

\* l. 779-783 and 811-815
OrganizeKey(a) == <<a.subject, a.AcquisitionTime, a.ModifiedSeriesNumber>>
OrganizeSorted(dl) == Values(SortPairs([i \in 1..Len(dl) |-> <<OrganizeKey(dl[i]), dl[i]>>]))

\* l. 787-790
Anonymized(a) ==
    /\ a.subject = NA
    /\ a.AcquisitionDateTime = SentinelDateTime
    /\ a.PatientName = NA
    /\ a.PatientID = NA

\* the position in the list dl of the record of sidecar path
PosOf(dl, path) == CHOOSE i \in 1..Len(dl) : dl[i].json_path = path

\* "0" * (4 - len(str(subj))) + str(subj)
RECURSIVE Zeros(_)
Zeros(n) == IF n <= 0 THEN <<>> ELSE <<"0">> \o Zeros(n - 1)
ZeroPad4(n) == Zeros(4 - Len(Str(n))) \o Str(n)

\* l. 792-806: the new value of pseudo_sub and the subj of the record at
\* Python index pos - 1, previous_data read from the list as it is now
PseudoSubject(cur, pos, a, pseudo_sub) ==
    IF pos = 1 THEN [pseudo_sub |-> pseudo_sub, subj |-> pseudo_sub]
    ELSE LET previous_data == cur[pos - 1]
         IN  IF a.SeriesNumber >= previous_data.SeriesNumber
             THEN IF ~(a.SeriesNumber - previous_data.SeriesNumber < 2)
                  THEN [pseudo_sub |-> pseudo_sub, subj |-> pseudo_sub - 1]
                  ELSE [pseudo_sub |-> pseudo_sub, subj |-> pseudo_sub]
             ELSE IF a.SeriesNumber = 1
                  THEN [pseudo_sub |-> pseudo_sub + 1, subj |-> pseudo_sub + 1]
                  ELSE [pseudo_sub |-> pseudo_sub, subj |-> pseudo_sub]

\* l. 786-815: the loop runs over the list sorted at l. 779 (order holds its
\* sidecar paths), while dataset_list is bound to a newly sorted list of the
\* same records after every iteration
RECURSIVE OrganizeLoop(_, _, _, _)
OrganizeLoop(order, cur, pos, pseudo_sub) ==
    IF pos > Len(order) THEN cur
    ELSE LET at == PosOf(cur, order[pos])
             a == cur[at]
             p == PseudoSubject(cur, pos, a, pseudo_sub)
             subject == a.subject \o ZeroPad4(p.subj)
         IN  IF Anonymized(a)
             THEN OrganizeLoop(order,
                      OrganizeSorted([cur EXCEPT ![at].subject = subject,
                                                 ![at].AcquisitionDateTime =
                                                     Take(subject, Len(subject) - 4)]),
                      pos + 1, p.pseudo_sub)
             ELSE OrganizeLoop(order, OrganizeSorted(cur), pos + 1, pseudo_sub)

\* l. 779-817
organize_dataset(dl) ==
    LET sorted == OrganizeSorted(dl)
    IN  OrganizeLoop([i \in 1..Len(sorted) |-> sorted[i].json_path], sorted, 1, 1)

-----------------------------------------------------------------------------
(* Identity Resolver: determine_subj_ses_IDs *)

\* np.unique(S): the strings of S in ascending order
RECURSIVE SortedStrings(_)
SortedStrings(S) ==
    IF S = {} THEN <<>>
    ELSE LET m == CHOOSE x \in S : \A y \in S \ {x} : StrLess(x, y)
         IN  <<m>> \o SortedStrings(S \ {m})

\* l. 848
SubjectsOf(dl) == SortedStrings({dl[i].subject : i \in 1..Len(dl)})

\* l. 893: set([(x["session"], x["AcquisitionDate"]) for x in sub_dics_list])
SesDates(dl, sub) ==
    {<<dl[i].session, dl[i].AcquisitionDate>> : i \in {j \in 1..Len(dl) : dl[j].subject = sub}}

\* the orders in which list(set(...)) can hand out the elements of S
Enumerations(S) ==
    {e \in [1..Cardinality(S) -> S] : \A i, j \in 1..Cardinality(S) : e[i] = e[j] => i = j}

\* l. 896-908: the session dictionaries, in the order of ses_dates
SessionDics(dl, sub, ses_dates) ==
    [k \in 1..Len(ses_dates) |->
        LET first == CHOOSE i \in 1..Len(dl) :
                        /\ dl[i].subject = sub
                        /\ dl[i].session = ses_dates[k][1]
                        /\ dl[i].AcquisitionDate = ses_dates[k][2]
                        /\ \A j \in 1..(i - 1) :
                              ~(/\ dl[j].subject = sub
                                /\ dl[j].session = ses_dates[k][1]
                                /\ dl[j].AcquisitionDate = ses_dates[k][2])
        IN  [ session |-> ses_dates[k][1],
              AcquisitionDate |-> ses_dates[k][2],
              AcquisitionTime |-> dl[first].AcquisitionTime,
              session_idx |-> 0 ]]

\* the session dictionaries as they would be without the sort and the counter
\* of l. 911-922
UnnumberedSessions(dics) == dics

\* l. 911-922: the sort is chosen on the first dictionary, session_idx is the
\* position in the sorted list
SortedSessions(dics) ==
    LET sorted == IF dics[1].AcquisitionDate # SentinelDate
                  THEN Values(SortPairs([k \in 1..Len(dics) |->
                           <<<<dics[k].AcquisitionDate, dics[k].AcquisitionTime, dics[k].session>>,
                             dics[k]>>]))
                  ELSE Values(SortPairs([k \in 1..Len(dics) |-> <<<<dics[k].session>>, dics[k]>>]))
    IN  [k \in 1..Len(sorted) |-> [sorted[k] EXCEPT !.session_idx = k - 1]]

\* l. 951-954: the dictionaries at the positions hit get date + "." +
\* str(date_counter), one after the other
RECURSIVE StampDates(_, _, _, _)
StampDates(st, hit, k, date) ==
    IF k > Len(st.dics) THEN st
    ELSE IF k \in hit
    THEN StampDates([ dics |-> [st.dics EXCEPT ![k].AcquisitionDate =
                                    date \o <<".">> \o Str(st.date_counter)],
                      date_counter |-> st.date_counter + 1 ], hit, k + 1, date)
    ELSE StampDates(st, hit, k + 1, date)

\* l. 947-954: one pass per entry of unique_ses_dates, the list of the dates
\* as they were before the loop
RECURSIVE SameDayLoop(_, _, _)
SameDayLoop(st, unique_ses_dates, n) ==
    IF n > Len(unique_ses_dates) THEN st
    ELSE LET hit == {k \in 1..Len(st.dics) : st.dics[k].AcquisitionDate = unique_ses_dates[n]}
         IN  SameDayLoop(IF Cardinality(hit) > 1
                         THEN StampDates(st, hit, 1, unique_ses_dates[n])
                         ELSE st,
                         unique_ses_dates, n + 1)

\* l. 957-963: the records of the session take its date and session_idx
RECURSIVE WriteBack(_, _, _, _)
WriteBack(dl, sub, dics, k) ==
    IF k > Len(dics) THEN dl
    ELSE WriteBack([i \in 1..Len(dl) |->
                       IF /\ dl[i].subject = sub
                          /\ dl[i].session = dics[k].session
                          /\ dl[i].AcquisitionDate = SplitFirst(dics[k].AcquisitionDate, <<".">>)
                       THEN [dl[i] EXCEPT !.AcquisitionDate = dics[k].AcquisitionDate,
                                          !.session_idx = dics[k].session_idx]
                       ELSE dl[i]],
                   sub, dics, k + 1)

\* l. 848-981: the iterations for the subjects subs[n..], order[sub] being the
\* order in which the set of l. 893 is listed for sub; st holds dataset_list
\* and date_counter, the subject_idx of subs[n] is n - 1
RECURSIVE SubjectLoop(_, _, _, _)
SubjectLoop(st, subs, n, order) ==
    IF n > Len(subs) THEN st
    ELSE LET sub == subs[n]
             dl == [i \in 1..Len(st.dataset_list) |->
                       IF st.dataset_list[i].subject = sub
                       THEN [st.dataset_list[i] EXCEPT !.subject_idx = n - 1]
                       ELSE st.dataset_list[i]]
             sorted == SortedSessions(SessionDics(dl, sub, order[sub]))
             stamped == SameDayLoop([dics |-> sorted, date_counter |-> st.date_counter],
                                    [k \in 1..Len(sorted) |-> sorted[k].AcquisitionDate], 1)
         IN  SubjectLoop([ dataset_list |-> WriteBack(dl, sub, stamped.dics, 1),
                           date_counter |-> stamped.date_counter ],
                         subs, n + 1, order)

\* the ways the sets of l. 893 can be listed, one order per subject
SetOrders(dl) ==
    LET subs == {dl[i].subject : i \in 1..Len(dl)}
    IN  {o \in [subs -> UNION {Enumerations(SesDates(dl, s)) : s \in subs}] :
            \A s \in subs : o[s] \in Enumerations(SesDates(dl, s))}

\* l. 843-983: date_counter starts at 1, once
determine_subj_ses_IDs(dl, order) ==
    SubjectLoop([dataset_list |-> dl, date_counter |-> 1], SubjectsOf(dl), 1, order).dataset_list

-----------------------------------------------------------------------------
(* Series Deduplicator: determine_unique_series *)

\* round(x, 1) of a number held in hundredths, in tenths (ties go to the even tenth)
Round1(x) ==
    LET q == x \div 10
        r == x % 10
    IN  IF r < 5 THEN q
        ELSE IF r > 5 THEN q + 1
        ELSE IF q % 2 = 0 THEN q ELSE q + 1

\* acquisition_dic[descriptor]
DescriptorText(a) == IF a.descriptor = "SeriesDescription" THEN a.SeriesDescription ELSE a.ProtocolName

\* l. 1022-1036: the marker is looked for in SeriesDescription and removed from
\* the descriptor field
heuristic_items(a) ==
    IF Contains(a.SeriesDescription, Py("_RR"))
    THEN <<Round1(a.EchoTime), Remove(DescriptorText(a), Py("_RR")), a.ImageType,
           Round1(a.RepetitionTime)>>
    ELSE <<Round1(a.EchoTime), DescriptorText(a), a.ImageType, Round1(a.RepetitionTime)>>

\* l. 1060-1061: the series_idx recorded with the first equal entry of series_checker
common_series_idx(series_checker, items) ==
    LET i == CHOOSE i \in 1..Len(series_checker) :
                /\ Take(series_checker[i], 4) = items
                /\ \A j \in 1..(i - 1) : Take(series_checker[j], 4) # items
    IN  series_checker[i][5]

\* l. 1010-1064 as they would be with the series_idx of a new series taken
\* from the position of its record (index) and not from the counter
PositionedSeriesStep(st, pos, compliant) ==
    LET a == st.dataset_list[pos]
        items == heuristic_items(a)
        full == \E i \in 1..Len(st.series_checker) : Take(st.series_checker[i], 4) = items
    IN  IF compliant = "yes" \/ ~full
        THEN [st EXCEPT !.series_idx = pos - 1,
                        !.dataset_list[pos].series_idx = pos - 1,
                        !.unique = Append(@, pos),
                        !.series_checker = Append(@, items \o <<pos - 1>>)]
        ELSE [st EXCEPT !.dataset_list[pos].series_idx = common_series_idx(st.series_checker, items),
                        !.series_checker =
                            Append(@, items \o <<common_series_idx(st.series_checker, items)>>)]

\* l. 1010-1064: one iteration of the loop, on the record at position pos
\* (1-based; Python's index is pos - 1).  st holds the locals of the function.
UniqueSeriesStep(st, pos, compliant) ==
    LET a == st.dataset_list[pos]
        items == heuristic_items(a)
        coarse == \E i \in 1..Len(st.series_checker) :
                      /\ st.series_checker[i][2] = items[2]
                      /\ st.series_checker[i][3] = items[3]
        full == \E i \in 1..Len(st.series_checker) : Take(st.series_checker[i], 4) = items
    IN  IF compliant = "yes"
        THEN LET idx == IF pos = 1 THEN 0 ELSE st.series_idx + 1
             IN  [st EXCEPT !.series_idx = idx,
                            !.dataset_list[pos].series_idx = idx,
                            !.unique = Append(@, pos)]
        ELSE IF pos = 1
        THEN [st EXCEPT !.dataset_list[pos].series_idx = 0,
                        !.unique = Append(@, pos),
                        !.series_checker = Append(@, items \o <<0>>)]
        ELSE IF ~coarse \/ ~full
        THEN [st EXCEPT !.series_idx = @ + 1,
                        !.dataset_list[pos].series_idx = st.series_idx + 1,
                        !.unique = Append(@, pos),
                        !.series_checker = Append(@, items \o <<st.series_idx + 1>>)]
        ELSE [st EXCEPT !.dataset_list[pos].series_idx = common_series_idx(st.series_checker, items),
                        !.series_checker =
                            Append(@, items \o <<common_series_idx(st.series_checker, items)>>)]

RECURSIVE UniqueSeriesLoop(_, _, _)
UniqueSeriesLoop(st, pos, compliant) ==
    IF pos > Len(st.dataset_list) THEN st
    ELSE UniqueSeriesLoop(UniqueSeriesStep(st, pos, compliant), pos + 1, compliant)

\* l. 1006-1066
determine_unique_series(dl, compliant) ==
    UniqueSeriesLoop([dataset_list |-> dl, unique |-> <<>>, series_checker |-> <<>>,
                      series_idx |-> 0], 1, compliant)

-----------------------------------------------------------------------------
(* Rule catalog: create_lookup_info *)

\* l. 1069-1440: the catalog, flattened to its (datatype, suffix) entries in
\* the order of lookup_dic: "localizer" first, the datatypes and suffixes in
\* the order of the BIDS schema, "dwi_derivatives" last.  The model keeps the
\* entries its descriptors can hit and those with a condition that can raise,
\* and of their search terms those it uses; a condition is named by its
\* Python text, written with single quotes.
lookup_dic ==
    << [ datatype |-> "localizer", suffix |-> "exclude",
         accepted_entities |-> {},
         search_terms |-> <<Py("localizer"), Py("scout")>>,
         conditions |-> <<"'_i0000' in unique_dic['paths'][0]">> ],
       [ datatype |-> "anat", suffix |-> "T1w",
         accepted_entities |-> {"acquisition", "run", "part"},
         search_terms |-> <<Py("t1w"), Py("mprage")>>,
         conditions |-> <<"unique_dic['nibabel_image'].ndim == 3",
                          "'inv1' not in sd and 'inv2' not in sd and 'uni_images' not in sd">> ],
       [ datatype |-> "anat", suffix |-> "T2starw",
         accepted_entities |-> {"acquisition", "run", "part"},
         search_terms |-> <<Py("t2starw"), Py("qsm")>>,
         conditions |-> <<"unique_dic['nibabel_image'].ndim == 3",
                          "'EchoNumber' not in unique_dic['sidecar']">> ],
       [ datatype |-> "anat", suffix |-> "MEGRE",
         accepted_entities |-> {"acquisition", "run", "echo", "part"},
         search_terms |-> <<Py("megre"), Py("qsm")>>,
         conditions |-> <<"unique_dic['nibabel_image'].ndim == 3",
                          "'EchoNumber' in unique_dic['sidecar']">> ],
       [ datatype |-> "dwi", suffix |-> "dwi",
         accepted_entities |-> {"acquisition", "direction", "run", "part"},
         search_terms |-> <<Py("dwi"), Py("dti"), Py("dmri")>>,
         conditions |-> <<"any('.bvec' in x for x in unique_dic['paths'])",
                          "unique_dic['NumVolumes'] > 1",
                          "not any(x in sd for x in ['trace', '_fa_', 'adc'])">> ],
       [ datatype |-> "fmap", suffix |-> "phasediff",
         accepted_entities |-> {"acquisition", "run"},
         search_terms |-> <<Py("phasediff"), Py("fmap"), Py("fieldmap")>>,
         conditions |-> <<"'EchoNumber' in unique_dic['sidecar']",
                          "unique_dic['EchoNumber'] == 2",
                          "'_e2_ph' in unique_dic['json_path']",
                          "'_e1_ph' not in dataset_list_unique_series[index - 2]['json_path']">> ],
       [ datatype |-> "fmap", suffix |-> "phase2",
         accepted_entities |-> {"acquisition", "run"},
         search_terms |-> <<Py("phase2"), Py("fmap"), Py("fieldmap")>>,
         conditions |-> <<"'EchoNumber' in unique_dic['sidecar']",
                          "unique_dic['EchoNumber'] == 2",
                          "'_e2_ph' in unique_dic['json_path']",
                          "'_e1_ph' in dataset_list_unique_series[index - 2]['json_path']">> ],
       [ datatype |-> "fmap", suffix |-> "epi",
         accepted_entities |-> {"acquisition", "direction", "run"},
         search_terms |-> <<Py("epi"), Py("fmap"), Py("fieldmap"), Py("spinecho")>>,
         conditions |-> <<"unique_dic['NumVolumes'] <= 10",
                          "'EchoNumber' not in unique_dic['sidecar']",
                          "'Manufacturer' in unique_dic['sidecar']",
                          "unique_dic['sidecar']['Manufacturer'] != 'GE'">> ],
       [ datatype |-> "func", suffix |-> "bold",
         accepted_entities |-> {"task", "acquisition", "direction", "run", "echo", "part"},
         search_terms |-> <<Py("bold"), Py("func"), Py("fmri"), Py("task"), Py("rest")>>,
         conditions |-> <<"unique_dic['nibabel_image'].ndim == 4",
                          "unique_dic['NumVolumes'] > 1",
                          "unique_dic['RepetitionTime'] > 0",
                          "not any(x in unique_dic['ImageType'] for x in [...])">> ],
       [ datatype |-> "func", suffix |-> "sbref",
         accepted_entities |-> {"task", "acquisition", "direction", "run", "echo", "part"},
         search_terms |-> <<Py("sbref"), Py("func"), Py("bold"), Py("fmri"), Py("task"), Py("rest")>>,
         conditions |-> <<"'DIFFUSION' not in unique_dic['ImageType']",
                          "'sbref' in sd and unique_dic['NumVolumes'] == 1",
                          "unique_dic['nibabel_image'].ndim == 3",
                          "not any(x in unique_dic['ImageType'] for x in [...])">> ],
       [ datatype |-> "dwi_derivatives", suffix |-> "exclude",
         accepted_entities |-> {},
         search_terms |-> <<Py("trace"), Py("_fa_"), Py("adc")>>,
         conditions |-> <<"'DIFFUSION' in unique_dic['ImageType']">> ] >>

\* x in a Python list of strings
InList(x, list) == \E i \in 1..Len(list) : list[i] = x

\* list[i] of Python, for i below len(list), and where it raises IndexError
At(list, i) == IF i >= 0 THEN list[i + 1] ELSE list[Len(list) + i + 1]

IndexRaises(list, i) == i >= Len(list) \/ i < 0 - Len(list)

\* the conditions as they would be if none of them ever held
ConditionsFail(t, sd, unique_dic, dataset_list_unique_series, index) == FALSE

\* l. 1574-1578: eval(t, {"sd": sd, "unique_dic": unique_dic,
\* "dataset_list_unique_series": dataset_list_unique_series, "index": index})
\* of a condition that does not raise
eval(t, sd, unique_dic, dataset_list_unique_series, index) ==
    CASE t = "'_i0000' in unique_dic['paths'][0]" ->
            Contains(unique_dic.json_path, Py("_i0000"))
      [] t = "unique_dic['nibabel_image'].ndim == 3" -> unique_dic.ndim = 3
      [] t = "unique_dic['nibabel_image'].ndim == 4" -> unique_dic.ndim = 4
      [] t = "'inv1' not in sd and 'inv2' not in sd and 'uni_images' not in sd" ->
            /\ ~Contains(sd, Py("inv1"))
            /\ ~Contains(sd, Py("inv2"))
            /\ ~Contains(sd, Py("uni_images"))
      [] t = "'EchoNumber' not in unique_dic['sidecar']" -> ~Has(unique_dic.sidecar, "EchoNumber")
      [] t = "'EchoNumber' in unique_dic['sidecar']" -> Has(unique_dic.sidecar, "EchoNumber")
      [] t = "any('.bvec' in x for x in unique_dic['paths'])" -> unique_dic.bvec
      [] t = "unique_dic['NumVolumes'] > 1" -> unique_dic.NumVolumes > 1
      [] t = "unique_dic['NumVolumes'] <= 10" -> unique_dic.NumVolumes <= 10
      [] t = "not any(x in sd for x in ['trace', '_fa_', 'adc'])" ->
            /\ ~Contains(sd, Py("trace"))
            /\ ~Contains(sd, Py("_fa_"))
            /\ ~Contains(sd, Py("adc"))
      [] t = "'Manufacturer' in unique_dic['sidecar']" -> Has(unique_dic.sidecar, "Manufacturer")
      [] t = "unique_dic['sidecar']['Manufacturer'] != 'GE'" -> unique_dic.sidecar.Manufacturer # "GE"
      [] t = "unique_dic['RepetitionTime'] > 0" -> unique_dic.RepetitionTime > 0
      [] t = "not any(x in unique_dic['ImageType'] for x in [...])" ->
            \A x \in {"DERIVED", "PERFUSION", "DIFFUSION", "ASL", "UNI"} :
                ~InList(x, unique_dic.ImageType)
      [] t = "'DIFFUSION' not in unique_dic['ImageType']" -> ~InList("DIFFUSION", unique_dic.ImageType)
      [] t = "'sbref' in sd and unique_dic['NumVolumes'] == 1" ->
            Contains(sd, Py("sbref")) /\ unique_dic.NumVolumes = 1
      [] t = "'DIFFUSION' in unique_dic['ImageType']" -> InList("DIFFUSION", unique_dic.ImageType)
      [] t = "unique_dic['EchoNumber'] == 2" -> unique_dic.EchoNumber = Some(2)
      [] t = "'_e2_ph' in unique_dic['json_path']" -> Contains(unique_dic.json_path, Py("_e2_ph"))
      [] t = "'_e1_ph' not in dataset_list_unique_series[index - 2]['json_path']" ->
            ~Contains(At(dataset_list_unique_series, index - 2).json_path, Py("_e1_ph"))
      [] t = "'_e1_ph' in dataset_list_unique_series[index - 2]['json_path']" ->
            Contains(At(dataset_list_unique_series, index - 2).json_path, Py("_e1_ph"))

\* eval raises: KeyError when the condition reads a sidecar key that is not
\* there, IndexError when the list has no element at index - 2
EvalRaises(t, unique_dic, dataset_list_unique_series, index) ==
    \/ /\ t = "unique_dic['sidecar']['Manufacturer'] != 'GE'"
       /\ ~Has(unique_dic.sidecar, "Manufacturer")
    \/ /\ t \in {"'_e1_ph' not in dataset_list_unique_series[index - 2]['json_path']",
                  "'_e1_ph' in dataset_list_unique_series[index - 2]['json_path']"}
       /\ IndexRaises(dataset_list_unique_series, index - 2)

-----------------------------------------------------------------------------
(* Classification Rule Engine: datatype_suffix_identification *)

\* a message of the classifier: which text it is, and what the text is
\* formatted with; notes holds what l. 1688-1703 append to it
Message(text, datatype, suffix, search_hit, conditions) ==
    [ text |-> text, datatype |-> datatype, suffix |-> suffix, search_hit |-> search_hit,
      conditions |-> conditions, notes |-> <<>> ]

\* re.sub("[^A-Za-z0-9]+", "_", s)
RECURSIVE Underscored(_)
Underscored(s) ==
    IF s = <<>> THEN <<>>
    ELSE IF IsAlnum(Head(s)) THEN <<Head(s)>> \o Underscored(Tail(s))
    ELSE IF Len(s) > 1 /\ ~IsAlnum(s[2]) THEN Underscored(Tail(s))
    ELSE <<"_">> \o Underscored(Tail(s))

\* l. 1558-1562
NormalizedDescriptor(unique_dic) == Lower(Underscored(DescriptorText(unique_dic))) \o <<"_">>

\* l. 1493-1555, for the datatypes and suffixes of the catalog: one iteration
\* of the loop over datatypes_yaml; st holds datatype, suffix and message
PathStep(st, datatype, json_path) ==
    LET suffixes == SelectSeq([k \in 1..Len(lookup_dic) |-> lookup_dic[k]],
                              LAMBDA e : e.datatype = datatype)
        found == {k \in 1..Len(suffixes) :
                     Contains(json_path, Py("_" \o suffixes[k].suffix \o ".json"))}
        unhelpful_suffixes == <<"fieldmap", "beh", "epi", "magnitude", "magnitude1",
                                "magnitude2", "phasediff">>
        bad == {k \in 1..Len(unhelpful_suffixes) :
                   Contains(json_path, Py("_" \o unhelpful_suffixes[k] \o ".json"))}
        last(S) == CHOOSE k \in S : \A j \in S : j <= k
        datatype1 == IF Contains(json_path, Py("/" \o datatype \o "/")) THEN datatype
                     ELSE st.datatype
        datatype2 == IF bad = {} THEN datatype1
                     ELSE IF unhelpful_suffixes[last(bad)] = "beh" THEN "beh" ELSE "fmap"
        suffix1 == IF found = {} THEN st.suffix ELSE suffixes[last(found)].suffix
        suffix2 == IF bad = {} THEN suffix1 ELSE unhelpful_suffixes[last(bad)]
        suffix3 == IF datatype2 = "func" /\ suffix2 = "phase" THEN "bold" ELSE suffix2
    IN  [ datatype |-> datatype2,
          suffix |-> suffix3,
          message |-> IF datatype2 # "" /\ suffix3 # ""
                      THEN Some(Message("in the file path", datatype2, suffix3, <<>>, <<>>))
                      ELSE st.message ]

\* l. 1493: the datatypes of datatypes_yaml that the catalog has entries for
PathDatatypes == <<"anat", "dwi", "fmap", "func">>

RECURSIVE PathLoop(_, _, _)
PathLoop(st, n, json_path) ==
    IF n > Len(PathDatatypes) THEN st
    ELSE PathLoop(PathStep(st, PathDatatypes[n], json_path), n + 1, json_path)

\* l. 1580-1626 and 1639-1661: what the entry lookup_dic[k] does to the series
\* whose conditions all evaluate; st holds the fields of unique_dic the scan
\* writes, cont, and the entries evaluated so far
EntryOutcome(st, k, sd, unique_dic, dataset_list_unique_series, index) ==
    LET numbered(list) == [i \in 1..Len(list) |-> <<i, list[i]>>]
        outcome(e, hits, eval_checks) ==
            LET search_hit == e.search_terms[CHOOSE i \in hits : \A j \in hits : i <= j]
                met == \A i \in 1..Len(e.conditions) : eval_checks[i]
                failed == LET fails == SelectSeq([i \in 1..Len(e.conditions) |-> i],
                                                 LAMBDA i : ~eval_checks[i])
                          IN  [i \in 1..Len(fails) |-> e.conditions[fails[i]]]
            IN  IF e.datatype = "localizer"
                THEN IF hits # {} \/ met
                     THEN [st EXCEPT !.type = "exclude",
                                     !.error = Some("Acquisition appears to be a localizer"),
                                     !.message = Some(Message("localizer", "", "", <<>>, <<>>))]
                     ELSE st
                ELSE IF e.datatype = "dwi_derivatives"
                THEN IF hits # {} /\ met
                     THEN [st EXCEPT !.type = "exclude",
                                     !.error = Some("Acquisition appears to be a TRACEW, FA, or ADC"),
                                     !.message = Some(Message("dwi derivative", "", "", <<>>, <<>>))]
                     ELSE st
                ELSE IF hits # {}
                THEN IF met
                     THEN [st EXCEPT !.datatype = e.datatype,
                                     !.suffix = e.suffix,
                                     !.type = "",
                                     !.message = Some(Message("believed to be", e.datatype, e.suffix,
                                                              search_hit, numbered(e.conditions))),
                                     !.cont = FALSE]
                     ELSE [st EXCEPT !.type = "exclude",
                                     !.message =
                                         Some(Message("thought to be", e.datatype,
                                                      IF /\ e.datatype \in {"func", "dwi"}
                                                         /\ unique_dic.ndim = 3
                                                         /\ unique_dic.NumVolumes > 1
                                                      THEN "sbref" ELSE e.suffix,
                                                      search_hit, numbered(failed)))]
                ELSE IF e.datatype = "dwi" /\ e.suffix = "dwi" /\ unique_dic.bvec
                THEN [st EXCEPT !.datatype = e.datatype,
                                !.suffix = e.suffix,
                                !.message = Some(Message("bval/bvec files", e.datatype, e.suffix,
                                                         <<>>, <<>>))]
                ELSE st
        matched(e) ==
            outcome(e,
                    {i \in 1..Len(e.search_terms) : Contains(sd, e.search_terms[i])},
                    [i \in 1..Len(e.conditions) |->
                        eval(e.conditions[i], sd, unique_dic, dataset_list_unique_series, index)])
    IN  matched(lookup_dic[k])

\* the scan as it would be without the breaks of l. 1605 and l. 1634-1635
RECURSIVE ScanWithoutBreak(_, _, _, _, _, _)
ScanWithoutBreak(st, k, sd, unique_dic, dataset_list_unique_series, index) ==
    IF k > Len(lookup_dic) \/ st.raised THEN st
    ELSE IF \E i \in 1..Len(lookup_dic[k].conditions) :
                EvalRaises(lookup_dic[k].conditions[i], unique_dic,
                           dataset_list_unique_series, index)
    THEN [st EXCEPT !.visited = Append(@, k), !.raised = TRUE]
    ELSE ScanWithoutBreak(EntryOutcome([st EXCEPT !.visited = Append(@, k)], k, sd, unique_dic,
                                       dataset_list_unique_series, index),
                          k + 1, sd, unique_dic, dataset_list_unique_series, index)

\* the scan as it would be if it also ended at the first entry that excludes
RECURSIVE ScanToFirstMatch(_, _, _, _, _, _)
ScanToFirstMatch(st, k, sd, unique_dic, dataset_list_unique_series, index) ==
    IF k > Len(lookup_dic) \/ ~st.cont \/ st.raised \/ st.type = "exclude" THEN st
    ELSE IF \E i \in 1..Len(lookup_dic[k].conditions) :
                EvalRaises(lookup_dic[k].conditions[i], unique_dic,
                           dataset_list_unique_series, index)
    THEN [st EXCEPT !.visited = Append(@, k), !.raised = TRUE]
    ELSE ScanToFirstMatch(EntryOutcome([st EXCEPT !.visited = Append(@, k)], k, sd, unique_dic,
                                       dataset_list_unique_series, index),
                          k + 1, sd, unique_dic, dataset_list_unique_series, index)

\* l. 1565-1661: the scan from entry k on; it ends at the end of the catalog,
\* at a confirmed entry (cont is False) or where eval raises
RECURSIVE ScanLoop(_, _, _, _, _, _)
ScanLoop(st, k, sd, unique_dic, dataset_list_unique_series, index) ==
    IF k > Len(lookup_dic) \/ ~st.cont \/ st.raised THEN st
    ELSE IF \E i \in 1..Len(lookup_dic[k].conditions) :
                EvalRaises(lookup_dic[k].conditions[i], unique_dic,
                           dataset_list_unique_series, index)
    THEN [st EXCEPT !.visited = Append(@, k), !.raised = TRUE]
    ELSE ScanLoop(EntryOutcome([st EXCEPT !.visited = Append(@, k)], k, sd, unique_dic,
                               dataset_list_unique_series, index),
                  k + 1, sd, unique_dic, dataset_list_unique_series, index)

\* the condition of l. 1668-1669 as it would be with "and" between its first two tests
UnresolvedBoth(unique_dic) ==
    /\ unique_dic.datatype = "" /\ unique_dic.suffix = ""
    /\ unique_dic.type = ""
    /\ unique_dic.message = None

\* l. 1668-1669
Unresolved(unique_dic) ==
    /\ unique_dic.datatype = "" \/ unique_dic.suffix = ""
    /\ unique_dic.type = ""
    /\ unique_dic.message = None

\* l. 1473-1703: one iteration of the loop over the unique series.  The
\* result holds the record, what the scan did (for scanned) and whether the
\* iteration raised; index is that of l. 1472, counted from 0
ClassifySeries(unique_dic, dataset_list_unique_series, index) ==
    LET \* l. 1688-1703: message + "..." raises TypeError on None
        warned(a4, runs, scan) ==
            LET norm == a4.datatype = "anat" /\ ~InList("NORM", a4.ImageType)
                echo == /\ a4.datatype = "anat"
                        /\ Has(a4.sidecar, "EchoNumber")
                        /\ ~InList("MEAN", a4.ImageType)
                notes == (IF norm THEN <<"non-normalized">> ELSE <<>>)
                            \o (IF echo THEN <<"multi-echo, not the combined RMS file">> ELSE <<>>)
            IN  [ unique_dic |->
                      IF notes # <<>> /\ a4.message # None
                      THEN [a4 EXCEPT !.message = Some([a4.message[1] EXCEPT !.notes = @ \o notes])]
                      ELSE a4,
                  scan |-> [ ran |-> runs, visited |-> scan.visited, datatype |-> scan.datatype,
                             suffix |-> scan.suffix, type |-> scan.type, message |-> scan.message ],
                  raised |-> scan.raised \/ (notes # <<>> /\ a4.message = None) ]
        \* l. 1680-1681
        typed(a3, runs, scan) ==
            warned(IF a3.type # "exclude" THEN [a3 EXCEPT !.type = a3.datatype \o "/" \o a3.suffix]
                   ELSE a3,
                   runs, scan)
        \* l. 1667-1677
        resolved(a2, runs, scan) ==
            typed(IF runs /\ Unresolved(a2)
                  THEN [a2 EXCEPT !.error = Some("Acquisition cannot be resolved"),
                                  !.message = Some(Message("unknown", "", "", <<>>, <<>>)),
                                  !.type = "exclude"]
                  ELSE a2,
                  runs, scan)
        scanned_as(a1, runs, scan) ==
            resolved([a1 EXCEPT !.datatype = scan.datatype, !.suffix = scan.suffix,
                                !.type = scan.type, !.error = scan.error,
                                !.message = scan.message],
                     runs, scan)
        \* l. 1564-1661
        searched(a1, runs, start) ==
            scanned_as(a1, runs,
                       IF runs THEN ScanLoop(start, 1, NormalizedDescriptor(unique_dic), a1,
                                             dataset_list_unique_series, index)
                       ELSE start)
        phase_b(a1) ==
            searched(a1,
                     (a1.datatype = "" \/ a1.suffix = "") /\ a1.type = "",
                     [ datatype |-> a1.datatype, suffix |-> a1.suffix, type |-> a1.type,
                       error |-> a1.error, message |-> a1.message,
                       cont |-> TRUE, visited |-> <<>>, raised |-> FALSE ])
        \* l. 1493-1555
        located(p) == [unique_dic EXCEPT !.datatype = p.datatype, !.suffix = p.suffix,
                                         !.message = p.message]
    IN  \* l. 1476-1555
        phase_b(IF ~unique_dic.valid_image
                THEN [unique_dic EXCEPT
                         !.type = "exclude",
                         !.error = Some("Acquisition does not appear to be an acquisition with imaging data"),
                         !.message = Some(Message("no imaging information", "", "", <<>>, <<>>))]
                ELSE IF unique_dic.type = "exclude"
                THEN [unique_dic EXCEPT
                         !.error = Some("Uploaded NIfTI/JSON file wasn't converted from DICOM"),
                         !.message = Some(Message("Uploaded NIfTI/JSON file wasn't converted from DICOM",
                                                  "", "", <<>>, <<>>))]
                ELSE located(PathLoop([datatype |-> unique_dic.datatype,
                                       suffix |-> unique_dic.suffix,
                                       message |-> unique_dic.message], 1, unique_dic.json_path)))

\* l. 1709-1729: the echoes of a mean (RMS) anatomical file are excluded;
\* descriptor is the one the loop above left, that of the last series.  rms
\* holds the positions (in series) of the mean files still to handle
RECURSIVE ExcludeEchoes(_, _, _)
ExcludeEchoes(series, rms, descriptor) ==
    IF rms = <<>> THEN series
    ELSE LET text(v) == IF descriptor = "SeriesDescription" THEN v.SeriesDescription
                        ELSE v.ProtocolName
             sd == text(series[Head(rms)])
         IN  ExcludeEchoes(
                 [x \in 1..Len(series) |->
                     IF StripNonAlnum(text(series[x])) = Remove(StripNonAlnum(sd), Py("RMS"))
                     THEN [series[x] EXCEPT
                              !.message = Some(Message("mean RMS anatomical file found", "", "",
                                                       <<>>, <<>>)),
                              !.type = "exclude"]
                     ELSE series[x]],
                 Tail(rms), descriptor)

\* l. 1472-1732, on the records of dataset_list at the positions unique
datatype_suffix_identification(dl, unique) ==
    LET returned(out, final) ==
            [ dataset_list |-> [i \in 1..Len(dl) |->
                                   IF \E n \in 1..Len(unique) : unique[n] = i
                                   THEN final[CHOOSE n \in 1..Len(unique) : unique[n] = i]
                                   ELSE dl[i]],
              scanned |-> [n \in 1..Len(unique) |-> out[n].scan],
              raised |-> \E n \in 1..Len(unique) : out[n].raised ]
        echoes(out, series, anat_ME_RMS) ==
            returned(out, IF anat_ME_RMS = <<>> THEN series
                          ELSE ExcludeEchoes(series, anat_ME_RMS, series[Len(series)].descriptor))
        means(out, series) ==
            echoes(out, series,
                   SelectSeq([n \in 1..Len(unique) |-> n],
                             LAMBDA n : /\ series[n].datatype = "anat"
                                        /\ InList("MEAN", series[n].ImageType)))
        looped(out) == means(out, [n \in 1..Len(unique) |-> out[n].unique_dic])
    IN  looped([n \in 1..Len(unique) |->
                   ClassifySeries(dl[unique[n]], [m \in 1..Len(unique) |-> dl[unique[m]]], n - 1)])

-----------------------------------------------------------------------------
(* Entity extraction: entity_labels_identification and check_part_entity *)

\* l. 39, objects/entities.yaml of the BIDS schema: the keys the model keeps,
\* in the order of the file, each with its short name
entities_yaml ==
    << [key |-> "acquisition", entity |-> "acq"], [key |-> "direction", entity |-> "dir"],
       [key |-> "echo", entity |-> "echo"], [key |-> "part", entity |-> "part"],
       [key |-> "run", entity |-> "run"], [key |-> "session", entity |-> "ses"],
       [key |-> "subject", entity |-> "sub"], [key |-> "task", entity |-> "task"] >>

EntityKeys == {entities_yaml[i].key : i \in 1..Len(entities_yaml)}

\* l. 222-248 and 2185: the task names of the Cognitive Atlas the model keeps
cog_atlas_tasks == <<Py("nback")>>

\* x in unique_dic["type"], for a string x
TypeHas(unique_dic, x) == Contains(Py(unique_dic.type), Py(x))

\* l. 1764-1765: re.sub(r'[^\w.]', "_", ...).lower() + "_"
EntityDescriptor(unique_dic) ==
    LET text == DescriptorText(unique_dic)
    IN  Lower([i \in 1..Len(text) |->
                  IF IsAlnum(text[i]) \/ text[i] \in {"_", "."} THEN text[i] ELSE "_"])
            \o <<"_">>

\* l. 1769-1782: the entities named in the descriptor (_<entity>_<label>) or
\* in the path (_<entity>-<label>)
NamedEntities(unique_dic) ==
    LET sd == EntityDescriptor(unique_dic)
        json_path == unique_dic.json_path
        named(e) ==
            IF e.key \in {"subject", "session", "direction"} THEN <<>>
            ELSE IF Contains(sd, Py("_" \o e.entity \o "_"))
            THEN SplitFirst(SplitLast(sd, Py(e.entity \o "_")), <<"_">>)
            ELSE IF Contains(json_path, Py("_" \o e.entity \o "-"))
            THEN AlnumPrefix(SplitLast(json_path, Py(e.entity \o "-")))
            ELSE <<>>
    IN  [key \in EntityKeys |->
            named(entities_yaml[CHOOSE i \in 1..Len(entities_yaml) :
                                    entities_yaml[i].key = key])]

\* l. 1762-1858: the entities found in the descriptor, the path and the metadata.
\* The branches for flip, acquisition and inversion (l. 1810-1848) need types the
\* catalog of the model does not hold
SeriesEntities(unique_dic) ==
    LET sd == EntityDescriptor(unique_dic)
        found == NamedEntities(unique_dic)
        \* l. 1785-1793
        rest == \E x \in {"rest", "rsfmri", "fcmri"} : Contains(Lower(StripNonAlnum(sd)), Py(x))
        match_index == {i \in 1..Len(cog_atlas_tasks) : Contains(sd, cog_atlas_tasks[i])}
        task == IF rest /\ found["task"] = <<>> THEN Py("rest")
                ELSE IF match_index # {}
                THEN cog_atlas_tasks[CHOOSE i \in match_index : \A j \in match_index : i <= j]
                ELSE found["task"]
        \* l. 1796-1797
        direction == IF TypeHas(unique_dic, "fmap/epi") \/ TypeHas(unique_dic, "dwi/dwi")
                     THEN unique_dic.direction ELSE found["direction"]
        \* l. 1800-1808
        echo == IF /\ unique_dic.EchoNumber # None
                   /\ unique_dic.EchoNumber[1] # 0
                   /\ \A x \in {"fmap/epi", "fmap/magnitude1", "fmap/magnitude2", "fmap/phasediff",
                                "fmap/phase1", "fmap/phase2", "fmap/fieldmap"} :
                          ~TypeHas(unique_dic, x)
                THEN Str(unique_dic.EchoNumber[1]) ELSE found["echo"]
        \* l. 1851-1858
        part == IF InList("REAL", unique_dic.ImageType) THEN Py("real")
                ELSE IF InList("IMAGINARY", unique_dic.ImageType) THEN Py("imag")
                ELSE IF ~TypeHas(unique_dic, "fmap") /\ InList("PHASE", unique_dic.ImageType)
                THEN Py("phase")
                ELSE found["part"]
    IN  [key \in EntityKeys |->
            CASE key = "task" -> task
              [] key = "direction" -> direction
              [] key = "echo" -> echo
              [] key = "part" -> part
              [] OTHER -> found[key]]

\* lookup_dic[datatype][suffix] is there
InCatalog(datatype, suffix) ==
    \E k \in 1..Len(lookup_dic) :
        lookup_dic[k].datatype = datatype /\ lookup_dic[k].suffix = suffix

\* lookup_dic[datatype][suffix]["accepted_entities"]
accepted_entities(datatype, suffix) ==
    lookup_dic[CHOOSE k \in 1..Len(lookup_dic) :
                   lookup_dic[k].datatype = datatype /\ lookup_dic[k].suffix = suffix
              ].accepted_entities

\* l. 1861-1877 as they would be without the test of l. 1868
KeepEntities(series_entities, unique_dic) == series_entities

\* l. 1861-1877, where the catalog holds the pair of the series
FilterEntities(series_entities, unique_dic) ==
    IF unique_dic.type = "exclude" THEN series_entities
    ELSE [key \in EntityKeys |->
             IF /\ series_entities[key] # <<>>
                /\ key \notin accepted_entities(unique_dic.datatype, unique_dic.suffix)
                /\ ~(unique_dic.datatype = "anat" /\ key = "echo")
             THEN <<>>
             ELSE series_entities[key]]

\* l. 1883-1889
Canonical(value) ==
    IF InList(".", value) THEN [i \in 1..Len(value) |-> IF value[i] = "." THEN "p" ELSE value[i]]
    ELSE IF ~(value # <<>> /\ \A i \in 1..Len(value) : IsAlpha(value[i]))
    THEN StripNonAlnum(value)
    ELSE value

\* l. 1867 raises KeyError: the series is not excluded, has an entity and its
\* pair is none of the catalog
EntitiesRaise(unique_dic) ==
    /\ unique_dic.type # "exclude"
    /\ \E key \in EntityKeys : SeriesEntities(unique_dic)[key] # <<>>
    /\ ~InCatalog(unique_dic.datatype, unique_dic.suffix)

\* l. 1760-1894, on the records of dataset_list at the positions unique; the
\* order of the keys (l. 1892) is not modelled
entity_labels_identification(dl, unique) ==
    LET raised == \E n \in 1..Len(unique) : EntitiesRaise(dl[unique[n]])
        entities(unique_dic) ==
            LET kept == FilterEntities(SeriesEntities(unique_dic), unique_dic)
            IN  [key \in EntityKeys |-> Canonical(kept[key])]
    IN  [ dataset_list |->
              IF raised THEN dl
              ELSE [i \in 1..Len(dl) |->
                       IF \E n \in 1..Len(unique) : unique[n] = i
                       THEN [entities |-> entities(dl[i])] @@ dl[i]
                       ELSE dl[i]],
          raised |-> raised ]

\* l. 1906-1916: the loop over part_phase_data, of which parts holds the
\* positions (in series) still to handle
RECURSIVE PartLoop(_, _)
PartLoop(series, parts) ==
    IF parts = <<>> THEN series
    ELSE LET part == series[Head(parts)]
             others(x) == [key \in EntityKeys \ {"part"} |-> x.entities[key]]
             mag_data == SelectSeq([x \in 1..Len(series) |-> x],
                                   LAMBDA x : /\ x # Head(parts)
                                              /\ series[x].SeriesDescription = part.SeriesDescription
                                              /\ series[x].type = part.type
                                              /\ others(series[x]) = others(part))
         IN  PartLoop(IF Len(mag_data) = 1
                      THEN [series EXCEPT ![mag_data[1]].entities["part"] = Py("mag")]
                      ELSE series,
                      Tail(parts))

\* l. 1899-1918
check_part_entity(dl, unique) ==
    LET series == [n \in 1..Len(unique) |-> dl[unique[n]]]
        part_phase_data == SelectSeq([n \in 1..Len(unique) |-> n],
                                     LAMBDA n : series[n].entities["part"] = Py("phase"))
        final == PartLoop(series, part_phase_data)
    IN  [i \in 1..Len(dl) |->
            IF \E n \in 1..Len(unique) : unique[n] = i
            THEN final[CHOOSE n \in 1..Len(unique) : unique[n] = i]
            ELSE dl[i]]

-----------------------------------------------------------------------------
(* Objects level: update_dataset_list, modify_objects_info, setVolumeThreshold *)

\* l. 1928-1938 with every record given what the first unique series holds
UpdateFromFirst(dl, unique) ==
    [i \in 1..Len(dl) |->
        IF unique = <<>> THEN dl[i]
        ELSE [entities |-> dl[unique[1]].entities] @@
             [dl[i] EXCEPT !.type = dl[unique[1]].type,
                           !.error = dl[unique[1]].error,
                           !.message = dl[unique[1]].message,
                           !.IntendedFor = dl[unique[1]].IntendedFor,
                           !.B0FieldIdentifier = dl[unique[1]].B0FieldIdentifier,
                           !.B0FieldSource = dl[unique[1]].B0FieldSource]]

\* l. 1928-1938: what the classifier and the entity extraction found for a
\* unique series is copied to the records of its series_idx, the last series
\* of that series_idx in the list deciding; forType is not modelled
update_dataset_list(dl, unique) ==
    [i \in 1..Len(dl) |->
        LET same == {n \in 1..Len(unique) : dl[unique[n]].series_idx = dl[i].series_idx}
        IN  IF same = {} THEN dl[i]
            ELSE LET unique_dic == dl[unique[CHOOSE n \in same : \A m \in same : m <= n]]
                 IN  [entities |-> unique_dic.entities] @@
                     [dl[i] EXCEPT !.type = unique_dic.type,
                                   !.error = unique_dic.error,
                                   !.message = unique_dic.message,
                                   !.IntendedFor = unique_dic.IntendedFor,
                                   !.B0FieldIdentifier = unique_dic.B0FieldIdentifier,
                                   !.B0FieldSource = unique_dic.B0FieldSource]]

\* l. 1983-2005: the checks of one record; its error becomes a list, which is
\* what an optional value is here
Protocol(a) ==
    LET a1 == IF /\ a.dtype \notin {"int16", "uint16"}
                 /\ ~(Has(a.sidecar, "Modality") /\ a.sidecar.Modality = "PT")
              THEN [a EXCEPT !.exclude = TRUE,
                             !.error = Some("The data array for this acquisition is improper"),
                             !.message = Some(Message("improper data array", "", "", <<>>, <<>>)),
                             !.type = "exclude"]
              ELSE a
    IN  IF a.negdim
        THEN [a1 EXCEPT !.exclude = TRUE,
                        !.type = "exclude",
                        !.error = Some("Image contains negative dimension(s)"),
                        !.message = Some(Message("negative dimension(s)", "", "", <<>>, <<>>))]
        ELSE a1

\* l. 2036-2054: objects_info has no "exclude" key
ObjectsInfo(protocol) ==
    [ subject_idx |-> protocol.subject_idx,
      session_idx |-> protocol.session_idx,
      series_idx |-> protocol.series_idx,
      exclude |-> None,
      analysisResults |-> [NumVolumes |-> protocol.NumVolumes, errors |-> protocol.error] ]

\* l. 1960-2063: the records are checked in place; the objects come by subject
\* and session, in the order of dataset_list within each
RECURSIVE ObjectsLoop(_, _)
ObjectsLoop(dl, positions) ==
    IF positions = {} THEN <<>>
    ELSE LET less(i, j) == \/ dl[i].subject_idx < dl[j].subject_idx
                           \/ /\ dl[i].subject_idx = dl[j].subject_idx
                              /\ dl[i].session_idx < dl[j].session_idx
                           \/ /\ dl[i].subject_idx = dl[j].subject_idx
                              /\ dl[i].session_idx = dl[j].session_idx
                              /\ i < j
             first == CHOOSE i \in positions : \A j \in positions \ {i} : less(i, j)
         IN  <<ObjectsInfo(dl[first])>> \o ObjectsLoop(dl, positions \ {first})

modify_objects_info(dl) ==
    LET checked == [i \in 1..Len(dl) |-> Protocol(dl[i])]
    IN  [ dataset_list |-> checked, objects_list |-> ObjectsLoop(checked, 1..Len(dl)) ]

\* min() and max() of a list of numbers
Min(list) == CHOOSE x \in {list[i] : i \in 1..Len(list)} : \A i \in 1..Len(list) : x <= list[i]
Max(list) == CHOOSE x \in {list[i] : i \in 1..Len(list)} : \A i \in 1..Len(list) : x >= list[i]

\* l. 2139-2152: tr is held in hundredths of a second
AdaptiveThreshold(minNumVolumes, maxNumVolumes, tr) ==
    LET numVolumes1min == 6000 \div tr
        half == maxNumVolumes \div 2
    IN  IF maxNumVolumes <= numVolumes1min THEN numVolumes1min
        ELSE IF minNumVolumes = maxNumVolumes THEN maxNumVolumes
        ELSE IF minNumVolumes > half THEN minNumVolumes
        ELSE half

\* l. 2124-2129
FuncSeries(x) ==
    /\ TypeHas(x, "func")
    /\ x.type # "func/sbref"
    /\ x.RepetitionTime > 0

\* the NumVolumes of the objects of a series
ObjectsVolumes(objects, series_idx) ==
    LET corresponding == SelectSeq(objects, LAMBDA x : x.series_idx = series_idx)
    IN  [i \in 1..Len(corresponding) |-> corresponding[i].analysisResults.NumVolumes]

\* l. 2124-2164, on the records of dataset_list at the positions unique.  The
\* threshold computed at l. 2141-2152 is overwritten at l. 2154
setVolumeThreshold(dl, unique, objects) ==
    [i \in 1..Len(objects) |->
        LET obj == objects[i]
            funcs == {n \in 1..Len(unique) :
                         FuncSeries(dl[unique[n]]) /\ dl[unique[n]].series_idx = obj.series_idx}
            volumes == ObjectsVolumes(objects, obj.series_idx)
            volumeThreshold(func) ==
                LET computed == AdaptiveThreshold(Min(volumes), Max(volumes), func.RepetitionTime)
                IN  9
        IN  IF \E n \in funcs : obj.analysisResults.NumVolumes < volumeThreshold(dl[unique[n]])
            THEN [obj EXCEPT !.exclude = Some(TRUE),
                             !.analysisResults.errors =
                                 <<"Acquisition is believed to be func/bold and contains fewer volumes than the threshold">>]
            ELSE obj]

-----------------------------------------------------------------------------
(* Sidecar files *)

\* json_data of a sidecar that states only its converter
BaseJson ==
    [ keys |-> {"ConversionSoftware"},
      ConversionSoftware |-> "dcm2niix",
      PatientName |-> NA,
      PatientID |-> NA,
      AcquisitionDateTime |-> SentinelDateTime,
      AcquisitionTime |-> SentinelTime,
      SeriesNumber |-> 0,
      SeriesDescription |-> NA,
      ProtocolName |-> NA,
      ImageType |-> <<>>,
      Modality |-> "MR",
      Manufacturer |-> "Siemens",
      RepetitionTime |-> 0,
      EchoNumber |-> 0,
      EchoTime |-> 0,
      PhaseEncodingDirection |-> "j" ]

\* a parsable sidecar file with a 3-D int16 image beside it
BaseFile(path) ==
    [ json_path |-> path,
      parsable |-> TRUE,
      json |-> BaseJson,
      companions |-> {"nii.gz"},
      image |-> [ndim |-> 3, volumes |-> 1, dtype |-> "int16", negdim |-> FALSE] ]

\* json_data with the listed keys set
WithKeys(json, kv) ==
    [k \in DOMAIN json |->
        IF k = "keys" THEN json.keys \cup DOMAIN kv
        ELSE IF k \in DOMAIN kv THEN kv[k] ELSE json[k]]

-----------------------------------------------------------------------------
(* The deduplicator on its own: every dataset_list of up to MaxAcq records  *)
(* of one subject and session, drawn from DedupJsons                        *)

\* the descriptor variants: SeriesDescription present, or only ProtocolName
DedupDescriptors ==
    { [SeriesDescription |-> <<"a">>], [SeriesDescription |-> Py("a_RR")],
      [SeriesDescription |-> <<"b">>],
      [ProtocolName |-> <<"a">>], [ProtocolName |-> Py("a_RR")] }

\* EchoTime 2.53 and 2.55 ms round to 2.5 and 2.6; 2.60 rounds to 2.6 as well
DedupJsons ==
    { WithKeys(WithKeys(BaseJson, d), [EchoTime |-> te, RepetitionTime |-> 200,
                                       ImageType |-> <<"ORIGINAL">>]) :
        d \in DedupDescriptors, te \in {253, 255} }
    \cup
    { WithKeys(BaseJson, [SeriesDescription |-> <<"a">>, EchoTime |-> 260,
                          RepetitionTime |-> 200, ImageType |-> <<"ORIGINAL">>]),
      WithKeys(BaseJson, [SeriesDescription |-> <<"a">>, EchoTime |-> 253,
                          RepetitionTime |-> 210, ImageType |-> <<"ORIGINAL">>]),
      WithKeys(BaseJson, [SeriesDescription |-> <<"a">>, EchoTime |-> 253,
                          RepetitionTime |-> 200, ImageType |-> <<"DERIVED">>]) }

\* the sidecar path of the i-th file of a one-directory upload: d/f<i>.json
FilePath(i) == Py("d/f") \o Str(i) \o Py(".json")

DedupLists ==
    UNION { { [i \in 1..n |-> Acquisition([BaseFile(FilePath(i)) EXCEPT !.json = c[i]], "")] :
                c \in [1..n -> DedupJsons] } : n \in 1..MaxAcq }

InitDedup ==
    /\ stage = "determine_unique_series"
    /\ bids_compliant \in {"yes", "no"}
    /\ uploaded_json_list = <<>>
    /\ uploaded_files_list = <<>>
    /\ data_type = ""
    /\ dataset_list \in DedupLists
    /\ unique_series = <<>>
    /\ prior = None
    /\ scanned = <<>>
    /\ objects_list = <<>>

\* l. 2205
DetermineUniqueSeries ==
    /\ stage = "determine_unique_series"
    /\ LET r == determine_unique_series(dataset_list, bids_compliant)
       IN  /\ dataset_list' = r.dataset_list
           /\ unique_series' = r.unique
    /\ stage' = "datatype_suffix_identification"
    /\ UNCHANGED <<bids_compliant, uploaded_json_list, uploaded_files_list, data_type, prior, scanned, objects_list>>

NextDedup == DetermineUniqueSeries

SpecDedup == InitDedup /\ [][NextDedup]_vars

-----------------------------------------------------------------------------
(* C1 *)

\* the fingerprint of the claim: the '_RR' marker stripped from the descriptor text
ClaimFingerprint(a) ==
    <<Round1(a.EchoTime), Remove(DescriptorText(a), Py("_RR")), a.ImageType,
      Round1(a.RepetitionTime)>>

Deduplicated == stage = "datatype_suffix_identification" /\ bids_compliant = "no"

\* C1: for non-standardized input, after determine_unique_series two acquisitions
\* have the same series_idx exactly when their fingerprints (EchoTime rounded to
\* one decimal, descriptor text with the '_RR' marker stripped, ImageType list,
\* RepetitionTime rounded to one decimal) are equal.
C1_FingerprintDecidesSeries ==
    Deduplicated =>
        \A i, j \in 1..Len(dataset_list) :
            (ClaimFingerprint(dataset_list[i]) = ClaimFingerprint(dataset_list[j]))
                <=> (dataset_list[i].series_idx = dataset_list[j].series_idx)

-----------------------------------------------------------------------------
(* The upload filter, the Normalizer and the Identity Resolver: every       *)
(* manifest of up to MaxManifest of the sidecars of IdentFiles, run twice,  *)
(* the second time with the manifest in another order                       *)

\* a sidecar of dcm2niix at path, acquired at time (no AcquisitionDateTime
\* when time is None), with series number n
Sidecar(path, time, n) ==
    [BaseFile(path) EXCEPT !.json =
        IF time = None
        THEN WithKeys(BaseJson, [SeriesNumber |-> n])
        ELSE WithKeys(BaseJson, [SeriesNumber |-> n,
                                 AcquisitionDateTime |-> Py("2021-01-01T") \o time[1]])]

\* two subjects with two sessions each on one day, a third session of the
\* first subject without a date, a sidecar of another converter (last in
\* natural order) and one that cannot be parsed (first in natural order)
IdentFiles ==
    << Sidecar(Py("sub1/sesa/f.json"), Some(Py("10:00:00.000000")), 1),
       Sidecar(Py("sub1/sesa/g.json"), Some(Py("11:00:00.000000")), 2),
       Sidecar(Py("sub1/sesb/f.json"), Some(Py("15:00:00.000000")), 1),
       Sidecar(Py("sub1/sesc/f.json"), None, 1),
       Sidecar(Py("sub2/sesa/f.json"), Some(Py("10:00:00.000000")), 1),
       Sidecar(Py("sub2/sesb/f.json"), Some(Py("15:00:00.000000")), 1),
       [BaseFile(Py("sub3/f.json")) EXCEPT
           !.json = WithKeys(BaseJson, [ConversionSoftware |-> "other"])],
       [BaseFile(Py("sub0/f.json")) EXCEPT !.parsable = FALSE] >>

\* the longest manifest
MaxManifest == 4

\* the files of IdentFiles at the positions S, in the order of IdentFiles
ManifestOf(S) ==
    LET F[n \in 0..Len(IdentFiles)] ==
            IF n = 0 THEN <<>>
            ELSE IF n \in S THEN Append(F[n - 1], IdentFiles[n]) ELSE F[n - 1]
    IN  F[Len(IdentFiles)]

IdentManifests ==
    {ManifestOf(S) : S \in {T \in SUBSET (1..Len(IdentFiles)) :
                                Cardinality(T) >= 1 /\ Cardinality(T) <= MaxManifest}}

\* the same files in every order
Reorderings(m) == {[i \in 1..Len(m) |-> m[e[i]]] : e \in Enumerations(1..Len(m))}

\* the state at l. 2188, the manifest read
Started(manifests) ==
    /\ stage = "modify_uploaded_dataset_list"
    /\ bids_compliant = "no"
    /\ uploaded_json_list \in manifests
    /\ uploaded_files_list = <<>>
    /\ data_type = ""
    /\ dataset_list = <<>>
    /\ unique_series = <<>>
    /\ prior = None
    /\ scanned = <<>>
    /\ objects_list = <<>>

InitIdent == Started(IdentManifests)

\* l. 2193; the return of l. 423 raises when the loop never ran
ModifyUploadedDatasetList ==
    /\ stage = "modify_uploaded_dataset_list"
    /\ IF KeptJsons(uploaded_json_list) = <<>>
       THEN /\ stage' = "crashed"
            /\ UNCHANGED <<uploaded_files_list, data_type>>
       ELSE /\ stage' = "generate_dataset_list"
            /\ uploaded_files_list' = modify_uploaded_dataset_list(uploaded_json_list).uploaded_files_list
            /\ data_type' = modify_uploaded_dataset_list(uploaded_json_list).data_type
    /\ UNCHANGED <<bids_compliant, uploaded_json_list, dataset_list, unique_series, prior, scanned, objects_list>>

\* l. 2196
GenerateDatasetList ==
    /\ stage = "generate_dataset_list"
    /\ IF \E i \in 1..Len(uploaded_files_list) : GenerateFails(uploaded_files_list[i])
       THEN /\ stage' = "crashed"
            /\ UNCHANGED dataset_list
       ELSE /\ stage' = "organize_dataset"
            /\ dataset_list' = generate_dataset_list(uploaded_files_list, data_type)
    /\ UNCHANGED <<bids_compliant, uploaded_json_list, uploaded_files_list, data_type,
                   unique_series, prior, scanned, objects_list>>

\* l. 2199
OrganizeDataset ==
    /\ stage = "organize_dataset"
    /\ dataset_list' = organize_dataset(dataset_list)
    /\ stage' = "determine_subj_ses_IDs"
    /\ UNCHANGED <<bids_compliant, uploaded_json_list, uploaded_files_list, data_type,
                   unique_series, prior, scanned, objects_list>>

\* l. 2202
DetermineSubjSesIDs ==
    /\ stage = "determine_subj_ses_IDs"
    /\ \E order \in SetOrders(dataset_list) :
           dataset_list' = determine_subj_ses_IDs(dataset_list, order)
    /\ stage' = "determine_unique_series"
    /\ UNCHANGED <<bids_compliant, uploaded_json_list, uploaded_files_list, data_type,
                   unique_series, prior, scanned, objects_list>>

\* the subject_idx and session_idx of every acquisition
IdentityOf(dl) == {<<dl[i].json_path, dl[i].subject_idx, dl[i].session_idx>> : i \in 1..Len(dl)}

\* the script is started again on the same upload, the manifest listing the
\* sidecars in any order; prior keeps what the first run assigned
Rerun ==
    /\ stage = "determine_unique_series"
    /\ prior = None
    /\ prior' = Some(IdentityOf(dataset_list))
    /\ uploaded_json_list' \in Reorderings(uploaded_json_list)
    /\ stage' = "modify_uploaded_dataset_list"
    /\ uploaded_files_list' = <<>>
    /\ data_type' = ""
    /\ dataset_list' = <<>>
    /\ unique_series' = <<>>
    /\ UNCHANGED <<bids_compliant, scanned, objects_list>>

NextIdent ==
    \/ ModifyUploadedDatasetList
    \/ GenerateDatasetList
    \/ OrganizeDataset
    \/ DetermineSubjSesIDs
    \/ Rerun

SpecIdent == InitIdent /\ [][NextIdent]_vars

-----------------------------------------------------------------------------
(* C6 *)

\* C6: the subject_idx and session_idx of every acquisition depend only on the
\* set of sidecars: a second run on the same sidecars, listed in any order,
\* assigns every acquisition the indices the first run assigned.
C6_IndicesIgnoreManifestOrder ==
    (stage = "determine_unique_series" /\ prior # None) =>
        IdentityOf(dataset_list) = prior[1]

-----------------------------------------------------------------------------
(* C7 *)

\* the acquisition date of the sidecar, as the Normalizer read it
OriginalDate(a) == SplitFirst(a.AcquisitionDateTime, <<"T">>)

\* the records of dl of subject sub acquired on date
RecordsOn(dl, sub, date) ==
    {i \in 1..Len(dl) : dl[i].subject = sub /\ OriginalDate(dl[i]) = date}

\* C7: after determine_subj_ses_IDs, whenever a subject has exactly two sessions
\* on one date D the records of the two sessions carry the dates D.1 and D.2,
\* records of one session carry one adjusted date and one session_idx, records
\* of the two sessions carry different ones; and the adjusted dates of any two
\* sessions of a subject differ.
C7_SameDaySessionsNumbered ==
    stage = "determine_unique_series" =>
        \A i \in 1..Len(dataset_list) :
            LET sub == dataset_list[i].subject
                date == OriginalDate(dataset_list[i])
                on == RecordsOn(dataset_list, sub, date)
            IN  /\ Cardinality({dataset_list[j].session : j \in on}) = 2 =>
                       /\ {dataset_list[j].AcquisitionDate : j \in on}
                              = {date \o Py(".1"), date \o Py(".2")}
                       /\ \A j, k \in on :
                              (dataset_list[j].session = dataset_list[k].session)
                                  <=> (/\ dataset_list[j].AcquisitionDate = dataset_list[k].AcquisitionDate
                                       /\ dataset_list[j].session_idx = dataset_list[k].session_idx)
                /\ \A j \in 1..Len(dataset_list) :
                       (/\ dataset_list[j].subject = sub
                        /\ <<dataset_list[j].session, OriginalDate(dataset_list[j])>>
                               # <<dataset_list[i].session, date>>)
                           => dataset_list[j].AcquisitionDate # dataset_list[i].AcquisitionDate

-----------------------------------------------------------------------------
(* C10 *)

\* the sidecars of the manifest m that parse and come from an accepted converter
GoodSidecars(m) == SelectSeq(m, LAMBDA f : FileDataType(f) = "")

\* the acquisition records of the upload without its other sidecars
RecordsOfGood(m) ==
    IF GoodSidecars(m) = <<>> THEN <<>>
    ELSE generate_dataset_list(modify_uploaded_dataset_list(GoodSidecars(m)).uploaded_files_list,
                               modify_uploaded_dataset_list(GoodSidecars(m)).data_type)

Generated == stage \in {"organize_dataset", "determine_subj_ses_IDs", "determine_unique_series"}

\* C10: a sidecar of another converter, or one that cannot be parsed, leaves the
\* type of the acquisitions of the accepted sidecars as it is without it,
\* wherever it stands in the manifest.
C10_BadSidecarExcludesOnlyItself ==
    Generated =>
        \A i \in 1..Len(dataset_list) :
            \E j \in 1..Len(RecordsOfGood(uploaded_json_list)) :
                /\ RecordsOfGood(uploaded_json_list)[j].json_path = dataset_list[i].json_path
                /\ RecordsOfGood(uploaded_json_list)[j].type = dataset_list[i].type

-----------------------------------------------------------------------------
(* Anonymized uploads: AnonCount sidecars d/f1.json, d/f2.json, ... without *)
(* timestamp, patient name, patient id or subject token, with every choice  *)
(* of series numbers up to MaxSeriesNumber                                  *)

AnonCount == 5
MaxSeriesNumber == 3

AnonManifests ==
    { [i \in 1..AnonCount |-> Sidecar(FilePath(i), None, sn[i])] :
        sn \in [1..AnonCount -> 1..MaxSeriesNumber] }

InitAnon == Started(AnonManifests)

NextAnon ==
    \/ ModifyUploadedDatasetList
    \/ GenerateDatasetList
    \/ OrganizeDataset

SpecAnon == InitAnon /\ [][NextAnon]_vars

-----------------------------------------------------------------------------
(* C8 *)

\* the subject of the record of the i-th sidecar of the upload
SubjectOfFile(i) == dataset_list[PosOf(dataset_list, FilePath(i))].subject

\* a subject id that ends in a number zero-padded to four digits
PseudoSubjectId(subject) ==
    /\ Len(subject) >= 4
    /\ \A k \in (Len(subject) - 3)..Len(subject) : IsDigit(subject[k])

\* C8: anonymized sidecars with the series numbers 1, 2, 3, 1, 2 leave
\* organize_dataset in two pseudo-subjects, the first three records in one and
\* the last two in another, the ids zero-padded to four digits.
C8_SeriesNumbersSplitPseudoSubjects ==
    (/\ stage = "determine_subj_ses_IDs"
     /\ [i \in 1..AnonCount |-> uploaded_json_list[i].json.SeriesNumber] = <<1, 2, 3, 1, 2>>) =>
        /\ SubjectOfFile(1) = SubjectOfFile(2)
        /\ SubjectOfFile(2) = SubjectOfFile(3)
        /\ SubjectOfFile(4) = SubjectOfFile(5)
        /\ SubjectOfFile(3) # SubjectOfFile(4)
        /\ PseudoSubjectId(SubjectOfFile(1))
        /\ PseudoSubjectId(SubjectOfFile(4))

-----------------------------------------------------------------------------
(* The classification: the script from l. 2193 to l. 2222, on every upload  *)
(* of up to MaxSeries of the acquisitions of ClassScans, with and without a *)
(* sidecar of another converter                                             *)

\* the acquisitions: where the sidecar lies (d/<dir>f<i><tail>), the keys of
\* the sidecar, the image and whether a .bvec file lies beside it
ClassScans ==
    LET scan(dir, tail, kv, ndim, volumes, dtype, bvec) ==
            [ dir |-> dir, tail |-> tail, kv |-> kv, bvec |-> bvec,
              image |-> [ndim |-> ndim, volumes |-> volumes, dtype |-> dtype, negdim |-> FALSE] ]
        mr(text) == [SeriesDescription |-> Py(text), Manufacturer |-> "Siemens"]
    IN  << scan("", ".json", mr("t1w"), 3, 1, "int16", FALSE),
           scan("", ".json", mr("mprage"), 4, 5, "int16", FALSE),
           scan("", ".json", [EchoNumber |-> 1] @@ mr("qsm"), 3, 1, "int16", FALSE),
           scan("", ".json", mr("qsm"), 3, 1, "int16", FALSE),
           scan("", ".json", [RepetitionTime |-> 200] @@ mr("task-rest_bold"), 4, 20, "int16", FALSE),
           scan("", ".json", [SeriesDescription |-> Py("task-rest_bold"), RepetitionTime |-> 200],
                4, 20, "int16", FALSE),
           scan("", ".json", [RepetitionTime |-> 200] @@ mr("rest_sbref"), 3, 1, "int16", FALSE),
           scan("", ".json", mr("dwi"), 4, 30, "int16", TRUE),
           scan("", ".json", [ImageType |-> <<"DERIVED", "DIFFUSION">>] @@ mr("trace"),
                3, 1, "int16", TRUE),
           scan("", ".json", mr("localizer"), 3, 1, "int16", FALSE),
           scan("", ".json", mr("scout_t1w"), 3, 1, "int16", FALSE),
           scan("", ".json", mr("xyz"), 3, 1, "int16", FALSE),
           scan("", ".json", mr("xyz"), 3, 1, "rgb", FALSE),
           scan("anat/", "_acq-hi_T1w.json", mr("xyz"), 3, 1, "int16", FALSE),
           scan("func/", "_T1w.json", mr("rest"), 3, 1, "int16", FALSE),
           scan("", ".json", [EchoNumber |-> 2] @@ mr("t1w_me"), 3, 1, "int16", FALSE),
           scan("", ".json", mr("rest_t1w"), 3, 1, "int16", FALSE),
           scan("", ".json", [ImageType |-> <<"ORIGINAL", "PHASE">>] @@ mr("rest_t1w"),
                3, 1, "int16", FALSE),
           scan("", ".json", [RepetitionTime |-> 200] @@ mr("ep2d_task-nback_run-1_bold"),
                4, 20, "int16", FALSE),
           scan("", ".json", [ProtocolName |-> Py("epi"), Manufacturer |-> "Siemens",
                              PhaseEncodingDirection |-> "j-", ImageType |-> <<"REAL">>],
                4, 2, "int16", FALSE),
           scan("anat/", ".json", mr("xyz"), 3, 1, "int16", FALSE),
           scan("", "_T1w.json", mr("xyz"), 3, 1, "int16", FALSE),
           scan("", ".json", [ProtocolName |-> Py("epi"), Manufacturer |-> "GE"], 4, 2, "int16", FALSE),
           scan("", ".json", [ImageType |-> <<"MEAN", "NORM">>] @@ mr("t1w_RMS"), 3, 1, "int16", FALSE) >>

\* the most acquisitions of an upload
MaxSeries == 2

\* the i-th sidecar file of an upload, of the acquisition v
ClassFile(i, v) ==
    [ json_path |-> Py("d/" \o v.dir \o "f") \o Str(i) \o Py(v.tail),
      parsable |-> TRUE,
      json |-> WithKeys(BaseJson, v.kv),
      companions |-> IF v.bvec THEN {"nii.gz", "bval", "bvec"} ELSE {"nii.gz"},
      image |-> v.image ]

\* the uploads of up to most sidecars of scans, accepted all, and the same
\* uploads with a sidecar of another converter, the last in natural order
UploadsOf(scans, most) ==
    LET accepted == UNION {{[i \in 1..n |-> ClassFile(i, scans[c[i]])] :
                               c \in [1..n -> 1..Len(scans)]} : n \in 1..most}
        other == [BaseFile(Py("d/z.json")) EXCEPT !.json.ConversionSoftware = "other"]
    IN  accepted \cup {Append(m, other) : m \in accepted}

Uploads(scans) == UploadsOf(scans, MaxSeries)

InitClass == Started(Uploads(ClassScans))

\* l. 2211; an exception ends the script
DatatypeSuffixIdentification ==
    /\ stage = "datatype_suffix_identification"
    /\ \E r \in {datatype_suffix_identification(dataset_list, unique_series)} :
           IF r.raised
           THEN /\ stage' = "crashed"
                /\ UNCHANGED <<dataset_list, scanned>>
           ELSE /\ stage' = "entity_labels_identification"
                /\ dataset_list' = r.dataset_list
                /\ scanned' = r.scanned
    /\ UNCHANGED <<bids_compliant, uploaded_json_list, uploaded_files_list, data_type,
                   unique_series, prior, objects_list>>

\* l. 2214; an exception ends the script
EntityLabelsIdentification ==
    /\ stage = "entity_labels_identification"
    /\ \E r \in {entity_labels_identification(dataset_list, unique_series)} :
           IF r.raised
           THEN /\ stage' = "crashed"
                /\ UNCHANGED dataset_list
           ELSE /\ stage' = "check_part_entity"
                /\ dataset_list' = r.dataset_list
    /\ UNCHANGED <<bids_compliant, uploaded_json_list, uploaded_files_list, data_type,
                   unique_series, prior, scanned, objects_list>>

\* l. 2222
CheckPartEntity ==
    /\ stage = "check_part_entity"
    /\ stage' = "set_IntendedFor_B0FieldIdentifier_B0FieldSource"
    /\ dataset_list' = check_part_entity(dataset_list, unique_series)
    /\ UNCHANGED <<bids_compliant, uploaded_json_list, uploaded_files_list, data_type,
                   unique_series, prior, scanned, objects_list>>

\* the script from l. 2193 to l. 2222
NextClass ==
    \/ ModifyUploadedDatasetList
    \/ GenerateDatasetList
    \/ OrganizeDataset
    \/ DetermineSubjSesIDs
    \/ DetermineUniqueSeries
    \/ DatatypeSuffixIdentification
    \/ EntityLabelsIdentification
    \/ CheckPartEntity

SpecClass == InitClass /\ [][NextClass]_vars

-----------------------------------------------------------------------------
(* C2 *)

\* the unique series at position n of dataset_list_unique_series
Series(n) == dataset_list[unique_series[n]]

Classified ==
    stage \in {"entity_labels_identification", "check_part_entity",
               "set_IntendedFor_B0FieldIdentifier_B0FieldSource"}

\* C2: when datatype_suffix_identification has returned, the type of every unique
\* series is "exclude" or "<datatype>/<suffix>" with both parts non-empty, and
\* its message is a string that is not empty.
C2_EverySeriesResolved ==
    Classified =>
        \A n \in 1..Len(unique_series) :
            /\ \/ Series(n).type = "exclude"
               \/ /\ Series(n).datatype # ""
                  /\ Series(n).suffix # ""
                  /\ Series(n).type = Series(n).datatype \o "/" \o Series(n).suffix
            /\ Series(n).message # None
            /\ Series(n).message[1].text # ""

\* a run that returned with a confirmed and an excluded series
C2_ConfirmedAndExcluded ==
    /\ Classified
    /\ \E n, m \in 1..Len(unique_series) :
           /\ Series(n).type = "exclude"
           /\ Series(m).type = "anat/MEGRE"

-----------------------------------------------------------------------------
(* C3, C4 *)

\* the entries of the catalog that l. 1569-1635 handle
Regular(k) == lookup_dic[k].datatype \notin {"localizer", "dwi_derivatives"}

\* a search term of entry k occurs in the normalized descriptor of series n
Matches(k, n) ==
    \E i \in 1..Len(lookup_dic[k].search_terms) :
        Contains(NormalizedDescriptor(Series(n)), lookup_dic[k].search_terms[i])

\* every predicate of entry k holds of series n
Passes(k, n) ==
    \A i \in 1..Len(lookup_dic[k].conditions) :
        /\ ~EvalRaises(lookup_dic[k].conditions[i], Series(n),
                       [m \in 1..Len(unique_series) |-> Series(m)], n - 1)
        /\ eval(lookup_dic[k].conditions[i], NormalizedDescriptor(Series(n)), Series(n),
                [m \in 1..Len(unique_series) |-> Series(m)], n - 1)

\* the entries that match series n, and those that match it and pass
Matching(n) == {k \in 1..Len(lookup_dic) : Regular(k) /\ Matches(k, n)}

Confirming(n) == {k \in Matching(n) : Passes(k, n)}

First(S) == CHOOSE k \in S : \A j \in S : k <= j

\* Phase B ran on series n and the first entry that matches it fails a predicate
FirstMatchFails(n) ==
    /\ scanned[n].ran
    /\ Matching(n) # {}
    /\ First(Matching(n)) \notin Confirming(n)

\* C3, as stated: when Phase B ran and the first entry whose search term occurs
\* in the descriptor fails a predicate, the series ends with type "exclude" and
\* no later entry confirms it.
C3_FirstMatchDecides ==
    Classified =>
        \A n \in 1..Len(unique_series) :
            FirstMatchFails(n) =>
                /\ scanned[n].type = "exclude"
                /\ Series(n).type = "exclude"

\* C3, amended: when Phase B ran and the first entry whose search term occurs in
\* the descriptor fails a predicate, the series ends with type "exclude" unless a
\* later entry matches and passes; then Phase B confirms it as the pair of the
\* first such entry.
C3_FirstMatchDecidesUnlessLaterPasses ==
    Classified =>
        \A n \in 1..Len(unique_series) :
            FirstMatchFails(n) =>
                IF Confirming(n) = {}
                THEN /\ scanned[n].type = "exclude"
                     /\ Series(n).type = "exclude"
                ELSE /\ scanned[n].type = ""
                     /\ scanned[n].datatype = lookup_dic[First(Confirming(n))].datatype
                     /\ scanned[n].suffix = lookup_dic[First(Confirming(n))].suffix

\* an upload where a first match fails and nothing confirms, and one where a
\* later entry confirms
C3_FailedThenConfirmed ==
    /\ Classified
    /\ \E n, m \in 1..Len(unique_series) :
           /\ FirstMatchFails(n) /\ Confirming(n) = {} /\ Series(n).type = "exclude"
           /\ FirstMatchFails(m) /\ Confirming(m) # {} /\ Series(m).type = "func/sbref"

\* C4: when Phase B ran and some entry matches with all its predicates holding,
\* the scan evaluates the entries up to the first such entry and no other, and
\* leaves the series with that entry's datatype and suffix, type "" (l. 1591) and
\* the message of that entry's confirmation.
C4_FirstConfirmedMatchWins ==
    Classified =>
        \A n \in 1..Len(unique_series) :
            (scanned[n].ran /\ Confirming(n) # {}) =>
                LET k == First(Confirming(n))
                IN  /\ scanned[n].visited = [i \in 1..k |-> i]
                    /\ scanned[n].datatype = lookup_dic[k].datatype
                    /\ scanned[n].suffix = lookup_dic[k].suffix
                    /\ scanned[n].type = ""
                    /\ scanned[n].message # None
                    /\ scanned[n].message[1].text = "believed to be"
                    /\ scanned[n].message[1].datatype = lookup_dic[k].datatype
                    /\ scanned[n].message[1].suffix = lookup_dic[k].suffix
                    /\ Series(n).datatype = lookup_dic[k].datatype
                    /\ Series(n).suffix = lookup_dic[k].suffix

\* a series confirmed by the anat/T2starw entry, whose search term the entry
\* after it shares
C4_ConfirmedBeforeEnd ==
    /\ Classified
    /\ \E n \in 1..Len(unique_series) :
           /\ scanned[n].ran
           /\ Confirming(n) # {}
           /\ First(Confirming(n)) < Len(lookup_dic) - 1
           /\ Series(n).type = "anat/T2starw"

-----------------------------------------------------------------------------
(* C5 *)

\* C5: after entity_labels_identification and check_part_entity, every entity
\* of a series that is not excluded has an empty value or a key among the
\* accepted entities of the series' datatype and suffix, except the key echo of
\* an anat series.
C5_EntitiesAccepted ==
    stage = "set_IntendedFor_B0FieldIdentifier_B0FieldSource" =>
        \A n \in 1..Len(unique_series) :
            Series(n).type # "exclude" =>
                \A key \in EntityKeys :
                    \/ Series(n).entities[key] = <<>>
                    \/ key \in accepted_entities(Series(n).datatype, Series(n).suffix)
                    \/ Series(n).datatype = "anat" /\ key = "echo"

\* an anat/T1w series that lost the task found in its descriptor and was paired,
\* as the magnitude, with the phase series of the same descriptor
C5_DroppedAndPaired ==
    /\ stage = "set_IntendedFor_B0FieldIdentifier_B0FieldSource"
    /\ \E n, m \in 1..Len(unique_series) :
           /\ Series(n).type = "anat/T1w"
           /\ Series(n).entities["part"] = Py("phase")
           /\ Series(m).type = "anat/T1w"
           /\ Series(m).entities["part"] = Py("mag")
           /\ SeriesEntities(Series(m))["task"] = Py("rest")
           /\ Series(m).entities["task"] = <<>>

-----------------------------------------------------------------------------
(* The volume threshold: the script from l. 2193 to l. 2248, on every upload *)
(* of up to MaxRuns runs of VolScans                                         *)

\* functional runs of 5 to 40 volumes at a RepetitionTime of 2 s or 3 s, a
\* single-band reference, a run whose pixels are RGB, one whose pixels are
\* 32-bit floats and one whose image has a negative dimension
VolScans ==
    LET run(text, tr, ndim, volumes, dtype) ==
            [ dir |-> "", tail |-> ".json", bvec |-> FALSE,
              kv |-> [SeriesDescription |-> Py(text), Manufacturer |-> "Siemens",
                      RepetitionTime |-> tr],
              image |-> [ndim |-> ndim, volumes |-> volumes, dtype |-> dtype, negdim |-> FALSE] ]
    IN  << run("task-rest_bold", 200, 4, 5, "int16"), run("task-rest_bold", 200, 4, 12, "int16"),
           run("task-rest_bold", 200, 4, 25, "int16"), run("task-rest_bold", 200, 4, 40, "int16"),
           run("task-rest_bold", 300, 4, 5, "int16"), run("task-rest_bold", 300, 4, 12, "int16"),
           run("task-rest_bold", 300, 4, 25, "int16"), run("task-rest_bold", 300, 4, 40, "int16"),
           run("rest_sbref", 200, 3, 1, "int16"), run("task-rest_bold", 200, 4, 40, "rgb"),
           run("task-rest_bold", 200, 4, 40, "float32"),
           [run("task-rest_bold", 200, 4, 25, "int16") EXCEPT !.image.negdim = TRUE] >>

\* the most runs of an upload
MaxRuns == 3

InitVol == Started(UploadsOf(VolScans, MaxRuns))

\* l. 2225: nothing is done for an upload that is not BIDS-compliant
SetIntendedFor ==
    /\ stage = "set_IntendedFor_B0FieldIdentifier_B0FieldSource"
    /\ bids_compliant = "no"
    /\ stage' = "update_dataset_list"
    /\ UNCHANGED <<bids_compliant, uploaded_json_list, uploaded_files_list, data_type,
                   dataset_list, unique_series, prior, scanned, objects_list>>

\* l. 2228
UpdateDatasetList ==
    /\ stage = "update_dataset_list"
    /\ stage' = "modify_objects_info"
    /\ dataset_list' = update_dataset_list(dataset_list, unique_series)
    /\ UNCHANGED <<bids_compliant, uploaded_json_list, uploaded_files_list, data_type,
                   unique_series, prior, scanned, objects_list>>

\* l. 2231
ModifyObjectsInfo ==
    /\ stage = "modify_objects_info"
    /\ stage' = "setVolumeThreshold"
    /\ \E r \in {modify_objects_info(dataset_list)} :
           /\ dataset_list' = r.dataset_list
           /\ objects_list' = r.objects_list
    /\ UNCHANGED <<bids_compliant, uploaded_json_list, uploaded_files_list, data_type,
                   unique_series, prior, scanned>>

\* l. 2248
SetVolumeThreshold ==
    /\ stage = "setVolumeThreshold"
    /\ stage' = "extract_series_info"
    /\ objects_list' = setVolumeThreshold(dataset_list, unique_series, objects_list)
    /\ UNCHANGED <<bids_compliant, uploaded_json_list, uploaded_files_list, data_type,
                   dataset_list, unique_series, prior, scanned>>

NextVol ==
    \/ NextClass
    \/ SetIntendedFor
    \/ UpdateDatasetList
    \/ ModifyObjectsInfo
    \/ SetVolumeThreshold

SpecVol == InitVol /\ [][NextVol]_vars

-----------------------------------------------------------------------------
(* C9 *)

\* C9: after setVolumeThreshold, for every unique series that is functional,
\* not func/sbref and has a RepetitionTime above 0, the objects of the series
\* marked excluded are exactly those with fewer volumes than the adaptive
\* cutoff of the series: floor(60/TR) if the most volumes do not exceed it, else
\* the most if the fewest equal it, else the larger of the fewest and half the
\* most.
C9_AdaptiveCutoffApplied ==
    stage = "extract_series_info" =>
        \A n \in 1..Len(unique_series) :
            FuncSeries(Series(n)) =>
                LET volumes == ObjectsVolumes(objects_list, Series(n).series_idx)
                    cutoff == AdaptiveThreshold(Min(volumes), Max(volumes), Series(n).RepetitionTime)
                IN  \A i \in 1..Len(objects_list) :
                        objects_list[i].series_idx = Series(n).series_idx =>
                            (objects_list[i].exclude = Some(TRUE)
                                <=> objects_list[i].analysisResults.NumVolumes < cutoff)

-----------------------------------------------------------------------------
(* C11 *)

\* a check of l. 1987-2000 fails for the record a
ChecksFail(a) ==
    \/ a.dtype \notin {"int16", "uint16"} /\ a.Modality # "PT"
    \/ a.negdim

\* C11: modify_objects_info excludes the acquisitions whose pixel type or
\* dimensions fail its checks and gives them the error; it leaves the type,
\* error and message of every other acquisition and of every unique series as
\* they were, also of a series whose own acquisition fails.
C11_FailureStaysWithAcquisition ==
    [][ (stage = "modify_objects_info" /\ stage' = "setVolumeThreshold") =>
          /\ \A i \in 1..Len(dataset_list) :
                 IF ChecksFail(dataset_list[i])
                 THEN /\ dataset_list'[i].exclude
                      /\ dataset_list'[i].error # None
                 ELSE /\ dataset_list'[i].type = dataset_list[i].type
                      /\ dataset_list'[i].error = dataset_list[i].error
                      /\ dataset_list'[i].message = dataset_list[i].message
          /\ \A n \in 1..Len(unique_series) :
                 /\ dataset_list'[unique_series'[n]].type = Series(n).type
                 /\ dataset_list'[unique_series'[n]].error = Series(n).error
                 /\ dataset_list'[unique_series'[n]].message = Series(n).message ]_vars

-----------------------------------------------------------------------------
(* C12 *)

\* C12: update_dataset_list leaves every acquisition record with the type,
\* entities, IntendedFor, B0FieldIdentifier, B0FieldSource, message and error
\* that the unique series of its series_idx held, and that is one series.
C12_SeriesValuesBroadcast ==
    [][ (stage = "update_dataset_list" /\ stage' = "modify_objects_info") =>
          \A i \in 1..Len(dataset_list) :
              LET own == {n \in 1..Len(unique_series) :
                             Series(n).series_idx = dataset_list[i].series_idx}
              IN  /\ Cardinality(own) = 1
                  /\ \A n \in own :
                         /\ dataset_list'[i].series_idx = Series(n).series_idx
                         /\ dataset_list'[i].type = Series(n).type
                         /\ dataset_list'[i].entities = Series(n).entities
                         /\ dataset_list'[i].IntendedFor = Series(n).IntendedFor
                         /\ dataset_list'[i].B0FieldIdentifier = Series(n).B0FieldIdentifier
                         /\ dataset_list'[i].B0FieldSource = Series(n).B0FieldSource
                         /\ dataset_list'[i].message = Series(n).message
                         /\ dataset_list'[i].error = Series(n).error ]_vars

\* two runs of a func/bold series and a run of another series after the
\* broadcast, the second run of the first series not the series' own record
C12_SecondRunTakesSeriesValues ==
    /\ stage = "modify_objects_info"
    /\ Len(dataset_list) = 3
    /\ Len(unique_series) = 2
    /\ \E i, j, k \in 1..3 :
           /\ i # j
           /\ dataset_list[i].series_idx = dataset_list[j].series_idx
           /\ dataset_list[k].series_idx # dataset_list[j].series_idx
           /\ \A n \in 1..2 : unique_series[n] # j
           /\ dataset_list[j].type = "func/bold"
           /\ dataset_list[j].entities["task"] = Py("rest")
           /\ dataset_list[j].message # None
           /\ dataset_list[k].type = "func/sbref"

-----------------------------------------------------------------------------
(* The script from l. 2185, the fetch of the task vocabulary, to l. 2248 *)

\* the state at l. 2185, before the vocabulary is fetched
InitTasks ==
    /\ stage = "find_cog_atlas_tasks"
    /\ bids_compliant = "no"
    /\ uploaded_json_list \in UploadsOf(VolScans, MaxRuns)
    /\ uploaded_files_list = <<>>
    /\ data_type = ""
    /\ dataset_list = <<>>
    /\ unique_series = <<>>
    /\ prior = None
    /\ scanned = <<>>
    /\ objects_list = <<>>

\* l. 2185: urlopen answers and the vocabulary is cog_atlas_tasks, or it raises
\* URLError, which nothing in find_cog_atlas_tasks (l. 240-241) or around the
\* call catches: the exception ends the script
FindCogAtlasTasks ==
    /\ stage = "find_cog_atlas_tasks"
    /\ \E answered \in BOOLEAN :
           stage' = IF answered THEN "modify_uploaded_dataset_list" ELSE "crashed"
    /\ UNCHANGED <<bids_compliant, uploaded_json_list, uploaded_files_list, data_type,
                   dataset_list, unique_series, prior, scanned, objects_list>>

NextTasks ==
    \/ FindCogAtlasTasks
    \/ NextVol

SpecTasks == InitTasks /\ [][NextTasks]_vars

\* C13: the fetch of the task vocabulary never ends the run: whether the
\* remote site answers or not, the script goes on to its next step.
C13_FetchFailureDoesNotAbort ==
    [][stage = "find_cog_atlas_tasks" => stage' # "crashed"]_vars

-----------------------------------------------------------------------------
(* C14 *)

\* C14: datatype_suffix_identification never raises: whatever the sidecars
\* hold and however many unique series there are, the script goes on from
\* l. 2211 to the entity extraction.
C14_ClassificationNeverRaises ==
    [][stage = "datatype_suffix_identification" => stage' # "crashed"]_vars

-----------------------------------------------------------------------------
(* The classification and the entity extraction run a second time on their *)
(* own result: the script from l. 2193 to l. 2214, then l. 2211-2214 again  *)

\* the acquisitions of ClassScans and one that lies in a directory named after
\* another datatype than the one its descriptor is confirmed as
AgainScans ==
    Append(ClassScans,
           [ dir |-> "func/", tail |-> ".json", bvec |-> FALSE,
             kv |-> [SeriesDescription |-> Py("t1w"), Manufacturer |-> "Siemens"],
             image |-> [ndim |-> 3, volumes |-> 1, dtype |-> "int16", negdim |-> FALSE] ])

InitAgain == Started(Uploads(AgainScans))

\* l. 2211-2214 on the lists that l. 2214 left; an exception ends the script
IdentifyAgain ==
    /\ stage = "check_part_entity"
    /\ \E r \in {datatype_suffix_identification(dataset_list, unique_series)} :
           IF r.raised
           THEN /\ stage' = "crashed"
                /\ UNCHANGED <<dataset_list, scanned>>
           ELSE \E e \in {entity_labels_identification(r.dataset_list, unique_series)} :
                    IF e.raised
                    THEN /\ stage' = "crashed"
                         /\ UNCHANGED <<dataset_list, scanned>>
                    ELSE /\ stage' = "identified_again"
                         /\ dataset_list' = e.dataset_list
                         /\ scanned' = r.scanned
    /\ UNCHANGED <<bids_compliant, uploaded_json_list, uploaded_files_list, data_type,
                   unique_series, prior, objects_list>>

NextAgain ==
    \/ NextClass
    \/ IdentifyAgain

SpecAgain == InitAgain /\ [][NextAgain]_vars

\* C15: the classification followed by the entity extraction, applied to
\* their own result, returns and leaves the datatype, the suffix, the type and
\* the entities of every unique series as they were.
C15_SecondRunChangesNothing ==
    [][stage = "check_part_entity" /\ stage' # "set_IntendedFor_B0FieldIdentifier_B0FieldSource" =>
          /\ stage' = "identified_again"
          /\ \A n \in 1..Len(unique_series) :
                 /\ Series(n)'.datatype = Series(n).datatype
                 /\ Series(n)'.suffix = Series(n).suffix
                 /\ Series(n)'.type = Series(n).type
                 /\ Series(n)'.entities = Series(n).entities]_vars

-----------------------------------------------------------------------------
(* The classification of the two example series of the documentation, alone *)
(* and beside another series: the script from l. 2193 to l. 2222            *)

\* a task run (the task token first, in the middle, after its label), a
\* T1-weighted volume and three other acquisitions
ScenarioScans ==
    LET scan(text, kv, ndim, volumes) ==
            [ dir |-> "", tail |-> ".json", bvec |-> FALSE,
              kv |-> kv @@ [SeriesDescription |-> Py(text), Manufacturer |-> "Siemens"],
              image |-> [ndim |-> ndim, volumes |-> volumes, dtype |-> "int16", negdim |-> FALSE] ]
        tr == [RepetitionTime |-> 200]
    IN  << scan("task_nback_bold", tr, 4, 20),
           scan("ep2d_task_nback_bold", tr, 4, 20),
           scan("nback_task_bold", tr, 4, 20),
           scan("t1_mprage", <<>>, 3, 1),
           scan("rest_sbref", tr, 3, 1),
           scan("localizer", <<>>, 3, 1),
           scan("xyz", <<>>, 3, 1) >>

InitScenario == Started(Uploads(ScenarioScans))

SpecScenario == InitScenario /\ [][NextClass]_vars

\* the descriptors of the task run
NbackDescriptors == {Py("task_nback_bold"), Py("ep2d_task_nback_bold"), Py("nback_task_bold")}

\* C16: a 4-D series of more than one volume with a positive RepetitionTime
\* whose descriptor names the task nback, at its start or further on, and
\* that comes to the classification with an empty type, is classified, its
\* type is func/bold, and the entity extraction gives it the task nback.
C16_NbackIsFuncBoldTask ==
    \A n \in 1..Len(unique_series) :
        DescriptorText(Series(n)) \in NbackDescriptors /\ data_type = "" =>
            /\ stage # "crashed"
            /\ Classified => Series(n).type = "func/bold"
            /\ stage \in {"check_part_entity", "set_IntendedFor_B0FieldIdentifier_B0FieldSource"} =>
                   Series(n).entities["task"] = Py("nback")

\* C17: a 3-D series with a valid image whose descriptor is t1_mprage and
\* that the scan of the catalog runs on ends with the type anat/T1w; the scan
\* visits the localizer check, which does not match it, and then anat/T1w,
\* where it ends.
C17_T1MprageIsAnatT1w ==
    Classified =>
        \A n \in 1..Len(unique_series) :
            /\ DescriptorText(Series(n)) = Py("t1_mprage")
            /\ Series(n).ndim = 3
            /\ Series(n).valid_image
            /\ scanned[n].ran
            => /\ Series(n).type = "anat/T1w"
               /\ Series(n).datatype = "anat" /\ Series(n).suffix = "T1w"
               /\ scanned[n].visited = <<1, 2>>
               /\ lookup_dic[1].datatype = "localizer" /\ ~Matches(1, n)
               /\ lookup_dic[2].datatype = "anat" /\ lookup_dic[2].suffix = "T1w"

\* the series t1_mprage is the only one of its upload, the scan ran on it and
\* its type is anat/T1w
C17_T1MprageAlone ==
    /\ stage = "entity_labels_identification"
    /\ Len(unique_series) = 1
    /\ DescriptorText(Series(1)) = Py("t1_mprage")
    /\ Series(1).ndim = 3 /\ Series(1).valid_image
    /\ scanned[1].ran
    /\ Series(1).type = "anat/T1w"

-----------------------------------------------------------------------------
(* The labels of subject and session: the script from l. 2193 to l. 2199,  *)
(* on every upload of one sidecar of LabelFiles                            *)

\* one sidecar for every choice of a path, a PatientName and a PatientID (NA
\* where the sidecar has none)
LabelFiles ==
    LET paths == {Py("d/f.json"), Py("sub-01/f.json"), Py("sub-01/ses-a/f.json")}
        names == {NA, Py("john"), Py("sub-02"), Py("Subj_7"), Py("ses-b")}
        ids == {NA, Py("x9"), Py("sub-03_ses-c")}
        keys(name, id) ==
            (IF name = NA THEN <<>> ELSE [PatientName |-> name])
                @@ (IF id = NA THEN <<>> ELSE [PatientID |-> id])
    IN  {[BaseFile(path) EXCEPT !.json = WithKeys(BaseJson, keys(name, id))] :
             path \in paths, name \in names, id \in ids}

InitLabel == Started({<<f>> : f \in LabelFiles})

NextLabel ==
    \/ ModifyUploadedDatasetList
    \/ GenerateDatasetList
    \/ OrganizeDataset

SpecLabel == InitLabel /\ [][NextLabel]_vars

\* the first of values that holds one of terms, 0 when none does
FirstWithToken(values, terms) ==
    IF \E i \in 1..Len(values) : FirstTerm(values[i], terms) # 0
    THEN CHOOSE i \in 1..Len(values) :
            /\ FirstTerm(values[i], terms) # 0
            /\ \A j \in 1..(i - 1) : FirstTerm(values[j], terms) = 0
    ELSE 0

\* the label after the token in the first of values that holds one
LabelOfFirst(values, terms) ==
    LET value == values[FirstWithToken(values, terms)]
    IN  StripNonAlnum(TokenAfter(value, terms[FirstTerm(value, terms)]))

\* C18: where the file path, PatientName or PatientID of an acquisition holds
\* a subject token, the subject of the acquisition is the label in the first
\* of the three that holds one, and likewise its session for the session
\* tokens: a label in the path is not replaced by one in PatientName or PatientID.
C18_FirstTokenGivesLabel ==
    stage = "organize_dataset" =>
        \A i \in 1..Len(dataset_list) :
            LET a == dataset_list[i]
                values == <<a.json_path, a.PatientName, a.PatientID>>
            IN  /\ FirstWithToken(values, sub_search_terms) # 0 =>
                       a.subject = LabelOfFirst(values, sub_search_terms)
                /\ FirstWithToken(values, ses_search_terms) # 0 =>
                       a.session = LabelOfFirst(values, ses_search_terms)

-----------------------------------------------------------------------------
(* C19 *)

\* the subjects of dataset_list, and the (session, AcquisitionDate) groups of
\* the subject sub
SubjectIds == {dataset_list[i].subject : i \in 1..Len(dataset_list)}

SessionGroups(sub) ==
    {<<dataset_list[i].session, dataset_list[i].AcquisitionDate>> :
        i \in {j \in 1..Len(dataset_list) : dataset_list[j].subject = sub}}

\* the session_idx values of the records of the group g of the subject sub
GroupIdx(sub, g) ==
    {dataset_list[i].session_idx :
        i \in {j \in 1..Len(dataset_list) :
                  /\ dataset_list[j].subject = sub
                  /\ <<dataset_list[j].session, dataset_list[j].AcquisitionDate>> = g}}

\* C19: when determine_subj_ses_IDs has returned, the subject_idx of an
\* acquisition is the number of subjects whose ID sorts before its own, so
\* that two acquisitions have the same subject_idx exactly when they have the
\* same subject; within a subject every (session, date) group has one
\* session_idx, the values of two groups differ, and together they are
\* 0..k-1 for the k groups of the subject.
C19_SubjectsAndSessionsNumbered ==
    stage = "determine_unique_series" =>
        /\ \A i \in 1..Len(dataset_list) :
               dataset_list[i].subject_idx =
                   Cardinality({s \in SubjectIds : StrLess(s, dataset_list[i].subject)})
        /\ \A i, j \in 1..Len(dataset_list) :
               dataset_list[i].subject_idx = dataset_list[j].subject_idx
                   <=> dataset_list[i].subject = dataset_list[j].subject
        /\ \A sub \in SubjectIds :
               /\ \A g \in SessionGroups(sub) : Cardinality(GroupIdx(sub, g)) = 1
               /\ \A g, h \in SessionGroups(sub) : g # h => GroupIdx(sub, g) # GroupIdx(sub, h)
               /\ UNION {GroupIdx(sub, g) : g \in SessionGroups(sub)}
                      = 0..(Cardinality(SessionGroups(sub)) - 1)

\* two subjects are numbered, one of them with two sessions
C19_TwoSubjectsTwoSessions ==
    /\ stage = "determine_unique_series"
    /\ Cardinality(SubjectIds) = 2
    /\ \E sub \in SubjectIds : Cardinality(SessionGroups(sub)) = 2
    /\ \E i, j \in 1..Len(dataset_list) :
           /\ dataset_list[i].subject_idx = 0 /\ dataset_list[j].subject_idx = 1
           /\ StrLess(dataset_list[i].subject, dataset_list[j].subject)
    /\ \E i, j \in 1..Len(dataset_list) :
           /\ dataset_list[i].subject = dataset_list[j].subject
           /\ dataset_list[i].session_idx = 0 /\ dataset_list[j].session_idx = 1

-----------------------------------------------------------------------------
(* C20 *)

\* the reserved entry k (the localizer or the diffusion derivatives) excludes
\* series n: l. 1642-1643 and 1654-1655
ReservedExcludes(k, n) ==
    /\ ~Regular(k)
    /\ IF lookup_dic[k].datatype = "localizer" THEN Matches(k, n) \/ Passes(k, n)
       ELSE Matches(k, n) /\ Passes(k, n)

\* C20: for every series the scan of the catalog ran on, the scan evaluates
\* the localizer check and the check for diffusion derivatives, both before
\* any entry of a datatype and suffix; and a series that one of the two
\* checks excludes ends with the type "exclude".
C20_ReservedChecksFirst ==
    Classified =>
        \A n \in 1..Len(unique_series) :
            scanned[n].ran =>
                LET visited == scanned[n].visited
                IN  /\ \A k \in 1..Len(lookup_dic) :
                           ~Regular(k) => \E i \in 1..Len(visited) : visited[i] = k
                    /\ \A i, j \in 1..Len(visited) :
                           ~Regular(visited[i]) /\ Regular(visited[j]) => i < j
                    /\ (\E k \in 1..Len(lookup_dic) : ReservedExcludes(k, n)) =>
                           Series(n).type = "exclude"

-----------------------------------------------------------------------------
(* C21 *)

\* the predicates of entry k that fail of series n, each with its position in
\* the conditions of the entry
FailedAt(k, n) ==
    {<<i, lookup_dic[k].conditions[i]>> :
        i \in {j \in 1..Len(lookup_dic[k].conditions) :
                  ~eval(lookup_dic[k].conditions[j], NormalizedDescriptor(Series(n)), Series(n),
                        [m \in 1..Len(unique_series) |-> Series(m)], n - 1)}}

\* C21: the message of a series that Phase B leaves excluded because an entry
\* matched it and predicates of the entry failed lists the predicates that
\* failed, each with the number it has in the conditions of that entry.
C21_FailedPredicatesKeepTheirNumbers ==
    Classified =>
        \A n \in 1..Len(unique_series) :
            /\ scanned[n].ran
            /\ Series(n).type = "exclude"
            /\ Series(n).message # None
            /\ Series(n).message[1].text = "thought to be"
            => \E k \in Matching(n) :
                   /\ lookup_dic[k].datatype = Series(n).message[1].datatype
                   /\ k \notin Confirming(n)
                   /\ {Series(n).message[1].conditions[j] :
                          j \in 1..Len(Series(n).message[1].conditions)} = FailedAt(k, n)

-----------------------------------------------------------------------------
(* The classification of multi-echo anatomical uploads: the script from    *)
(* l. 2193 to l. 2222                                                       *)

\* a combined (MEAN) volume named with and without the marker RMS, single
\* echoes, and a functional run that carries the descriptor of the echoes
EchoScans ==
    LET scan(dir, tail, kv, ndim, volumes) ==
            [ dir |-> dir, tail |-> tail, bvec |-> FALSE,
              kv |-> kv @@ [Manufacturer |-> "Siemens"],
              image |-> [ndim |-> ndim, volumes |-> volumes, dtype |-> "int16", negdim |-> FALSE] ]
        mean == [ImageType |-> <<"MEAN", "NORM">>]
    IN  << scan("", ".json", mean @@ [SeriesDescription |-> Py("t1w_RMS")], 3, 1),
           scan("", ".json", mean @@ [SeriesDescription |-> Py("t1w")], 3, 1),
           scan("", ".json", [SeriesDescription |-> Py("t1w"), EchoNumber |-> 1], 3, 1),
           scan("", ".json", [SeriesDescription |-> Py("t1w"), EchoNumber |-> 2], 3, 1),
           scan("func/", "_bold.json", [SeriesDescription |-> Py("t1w"), RepetitionTime |-> 200], 4, 20),
           scan("", ".json", [SeriesDescription |-> Py("xyz")], 3, 1) >>

InitEchoes == Started(Uploads(EchoScans))

SpecEchoes == InitEchoes /\ [][NextClass]_vars

\* series n ends excluded by the adjustment of l. 1705-1729
ExcludedAsEcho(n) ==
    /\ Series(n).type = "exclude"
    /\ Series(n).message # None
    /\ Series(n).message[1].text = "mean RMS anatomical file found"

\* C22: a series that the multi-echo adjustment excludes is anatomical and
\* is not itself a combined (MEAN) series.
C22_OnlyOtherAnatomicalEchoes ==
    Classified =>
        \A n \in 1..Len(unique_series) :
            ExcludedAsEcho(n) =>
                /\ Series(n).datatype = "anat"
                /\ ~InList("MEAN", Series(n).ImageType)

-----------------------------------------------------------------------------
(* The entity extraction of series that name an entity the metadata also   *)
(* give: the script from l. 2193 to l. 2222                                *)

\* runs that name their task, echo or part in the descriptor, with and
\* without a task of the vocabulary, an EchoNumber or a PHASE image beside it
EntityScans ==
    LET scan(text, kv, ndim, volumes) ==
            [ dir |-> "", tail |-> ".json", bvec |-> FALSE,
              kv |-> kv @@ [SeriesDescription |-> Py(text), Manufacturer |-> "Siemens"],
              image |-> [ndim |-> ndim, volumes |-> volumes, dtype |-> "int16", negdim |-> FALSE] ]
        tr == [RepetitionTime |-> 200]
    IN  << scan("ep2d_task-foo_bold", tr, 4, 20),
           scan("ep2d_task-foo_nback_bold", tr, 4, 20),
           scan("bold_echo-3_task-foo", tr, 4, 20),
           scan("bold_echo-3_task-foo", [EchoNumber |-> 1] @@ tr, 4, 20),
           scan("t1w_part-mag", <<>>, 3, 1),
           scan("t1w_part-mag", [ImageType |-> <<"ORIGINAL", "PHASE">>], 3, 1),
           scan("xyz", <<>>, 3, 1) >>

InitEntities == Started(Uploads(EntityScans))

SpecEntities == InitEntities /\ [][NextClass]_vars

\* C23: an entity that the descriptor or the path of a series names keeps,
\* where the entity extraction leaves it a value at all, the label named
\* there: the vocabulary of tasks, the EchoNumber and the flags of ImageType
\* fill only entities that were not named.
C23_NamedEntitiesKept ==
    stage = "check_part_entity" =>
        \A n \in 1..Len(unique_series) :
            \A key \in EntityKeys :
                /\ NamedEntities(Series(n))[key] # <<>>
                /\ Series(n).entities[key] # <<>>
                => Series(n).entities[key] = Canonical(NamedEntities(Series(n))[key])

-----------------------------------------------------------------------------
(* The age of the patient: l. 539-557 of generate_dataset_list, on one      *)
(* sidecar and a date of the run                                            *)

\* int(date.split("-")[0])
YearOf(date) == IntOf(SplitFirst(date, <<"-">>))

\* l. 542 raises AttributeError, outside the try of l. 543: a PatientAge that
\* JSON gives as a number has no isalnum
AgeRaises(json_data) ==
    Has(json_data, "PatientAge") /\ json_data.PatientAge.number

\* l. 539-557 where l. 542 does not raise: the age of the record, None for
\* "n/a".  A PatientAge given as a string is no int and no float (l. 545), so
\* l. 546 is never reached; l. 553 assigns the difference of the years, and
\* l. 554-555 are an expression statement of their own whose value is dropped
PatientAge(json_data, today_date) ==
    LET age == None
    IN  IF age = None /\ Has(json_data, "PatientBirthDate")
        THEN Some(YearOf(today_date) - YearOf(json_data.PatientBirthDate))
        ELSE age

\* the sidecars: PatientAge a number, a string or absent; PatientBirthDate in
\* ISO 8601 or absent
AgeJsons ==
    LET ages == {None} \cup {Some([number |-> TRUE, value |-> v, text |-> <<>>]) : v \in {34, 99, 100}}
                    \cup {Some([number |-> FALSE, value |-> 0, text |-> Py(s)]) : s \in {"034Y", "34.5"}}
        births == {None, Some(Py("1990-03-10")), Some(Py("1990-11-20")), Some(Py("1925-06-15"))}
    IN  {[ keys |-> (IF a = None THEN {} ELSE {"PatientAge"})
                        \cup (IF b = None THEN {} ELSE {"PatientBirthDate"}),
           PatientAge |-> IF a = None THEN [number |-> FALSE, value |-> 0, text |-> <<>>] ELSE a[1],
           PatientBirthDate |-> IF b = None THEN <<>> ELSE b[1] ] :
            a \in ages, b \in births}

\* the state at l. 539 for the only sidecar of an upload, today_date in prior
InitAge ==
    /\ stage = "find_age"
    /\ bids_compliant = "no"
    /\ uploaded_json_list \in {<<[json_path |-> Py("d/f.json"), json |-> j]>> : j \in AgeJsons}
    /\ uploaded_files_list = <<>>
    /\ data_type = ""
    /\ dataset_list = <<>>
    /\ unique_series = <<>>
    /\ prior \in {Some(Py(d)) : d \in {"2026-02-01", "2026-06-15", "2026-12-24"}}
    /\ scanned = <<>>
    /\ objects_list = <<>>

\* l. 539-557 and 702; an exception ends the script
FindAge ==
    /\ stage = "find_age"
    /\ IF AgeRaises(uploaded_json_list[1].json)
       THEN /\ stage' = "crashed"
            /\ UNCHANGED dataset_list
       ELSE /\ stage' = "age_found"
            /\ dataset_list' = <<[ json_path |-> uploaded_json_list[1].json_path,
                                   PatientAge |-> PatientAge(uploaded_json_list[1].json, prior[1]) ]>>
    /\ UNCHANGED <<bids_compliant, uploaded_json_list, uploaded_files_list, data_type,
                   unique_series, prior, scanned, objects_list>>

SpecAge == InitAge /\ [][FindAge]_vars

\* the (month, day) of a date in ISO 8601, as one number
MonthDay(date) ==
    100 * IntOf(SplitFirst(Drop(date, FirstPos(date, <<"-">>)), <<"-">>)) + IntOf(SplitLast(date, <<"-">>))

\* the age as documented: the declared age if it is a number below 100, else
\* the years since the birth date, less one before the birthday, else None
DeclaredAge(json_data, today_date) ==
    IF Has(json_data, "PatientAge") /\ json_data.PatientAge.number /\ json_data.PatientAge.value < 100
    THEN Some(json_data.PatientAge.value)
    ELSE IF Has(json_data, "PatientBirthDate")
    THEN Some(YearOf(today_date) - YearOf(json_data.PatientBirthDate)
                 - (IF MonthDay(today_date) < MonthDay(json_data.PatientBirthDate) THEN 1 ELSE 0))
    ELSE None

\* C24: the record is built whatever the PatientAge, and its age is the
\* declared PatientAge where that is a number below 100, else the years
\* since the birth date, one less before the birthday of the year, else n/a.
C24_AgeDeclaredOrFromBirthDate ==
    /\ stage # "crashed"
    /\ stage = "age_found" =>
           dataset_list[1].PatientAge = DeclaredAge(uploaded_json_list[1].json, prior[1])


-----------------------------------------------------------------------------
(* C25: acquisitions of one protocol that differ in ImageType, up to three  *)
(* of them in an upload                                                     *)

PartScans ==
    LET scan(text, kv) ==
            [ dir |-> "", tail |-> ".json", bvec |-> FALSE,
              kv |-> kv @@ [SeriesDescription |-> Py(text), Manufacturer |-> "Siemens"],
              image |-> [ndim |-> 3, volumes |-> 1, dtype |-> "int16", negdim |-> FALSE] ]
    IN  << scan("t1w", <<>>),
           scan("t1w", [ImageType |-> <<"NORM">>]),
           scan("t1w", [ImageType |-> <<"ORIGINAL", "PHASE">>]),
           scan("t1w", [ImageType |-> <<"DERIVED", "PHASE">>]),
           scan("t1w", [ImageType |-> <<"REAL">>]),
           scan("xyz", [ImageType |-> <<"ORIGINAL", "PHASE">>]) >>

\* the most acquisitions of such an upload
MaxParts == 3

InitParts == Started(UploadsOf(PartScans, MaxParts))

SpecParts == InitParts /\ [][NextClass]_vars

\* the other unique series with the descriptor, the type and, part aside, the
\* entities of the unique series n
Siblings(n) ==
    {m \in 1..Len(unique_series) \ {n} :
        /\ Series(m).SeriesDescription = Series(n).SeriesDescription
        /\ Series(m).type = Series(n).type
        /\ \A key \in EntityKeys \ {"part"} : Series(m).entities[key] = Series(n).entities[key]}

\* C25: check_part_entity gives the only sibling of a series with part
\* "phase" the part "mag" and leaves that series its "phase"; where such a
\* series has no sibling or several, it and its siblings keep their part.
C25_OnlySiblingOfPhaseIsMag ==
    [][stage = "check_part_entity" =>
          \A n \in 1..Len(unique_series) :
              Series(n).entities["part"] = Py("phase") =>
                  IF Cardinality(Siblings(n)) = 1
                  THEN /\ \A m \in Siblings(n) :
                              dataset_list'[unique_series[m]].entities["part"] = Py("mag")
                       /\ dataset_list'[unique_series[n]].entities["part"] = Py("phase")
                  ELSE \A m \in Siblings(n) \cup {n} :
                           dataset_list'[unique_series[m]].entities["part"] =
                               Series(m).entities["part"]]_vars


-----------------------------------------------------------------------------
(* C26 *)

\* the first record of dataset_list with the fingerprint of the record at i
FirstOfSeries(i) ==
    CHOOSE j \in 1..i :
        /\ heuristic_items(dataset_list[j]) = heuristic_items(dataset_list[i])
        /\ \A h \in 1..(j - 1) :
               heuristic_items(dataset_list[h]) # heuristic_items(dataset_list[i])

\* C26: after determine_unique_series the series_idx values of the records
\* are exactly 0 .. n-1, n the length of the unique list, and the unique list
\* holds one record for each of them; for non-standardized input that record
\* is the first in processing order with its fingerprint, for standardized
\* input every record is a series of its own.
C26_SeriesNumberedFromFirst ==
    stage = "datatype_suffix_identification" =>
        /\ {dataset_list[i].series_idx : i \in 1..Len(dataset_list)}
               = 0..(Len(unique_series) - 1)
        /\ \A k \in 0..(Len(unique_series) - 1) :
               Cardinality({n \in 1..Len(unique_series) : Series(n).series_idx = k}) = 1
        /\ bids_compliant = "no" =>
               \A n \in 1..Len(unique_series) : unique_series[n] = FirstOfSeries(unique_series[n])
        /\ bids_compliant = "yes" =>
               /\ unique_series = [i \in 1..Len(dataset_list) |-> i]
               /\ \A i \in 1..Len(dataset_list) : dataset_list[i].series_idx = i - 1

\* three records, the third of the series of the first
C26_ThirdJoinsFirst ==
    /\ stage = "datatype_suffix_identification"
    /\ bids_compliant = "no"
    /\ Len(dataset_list) = 3
    /\ Len(unique_series) = 2
    /\ dataset_list[3].series_idx = 0
    /\ dataset_list[2].series_idx = 1


-----------------------------------------------------------------------------
(* C27 *)

\* C27: the pixel types that generate_dataset_list accepts (valid_image) are
\* those that pass the check of the data array in modify_objects_info: of the
\* acquisitions that are not PET and have no negative dimension, those with
\* valid_image, a 32-bit float image among them, leave modify_objects_info
\* without the error of an improper data array, and only those.
C27_PixelTypeChecksAgree ==
    [][stage = "modify_objects_info" =>
          \A i \in 1..Len(dataset_list) :
              (~dataset_list[i].negdim /\ dataset_list[i].Modality # "PT") =>
                  (dataset_list[i].valid_image
                      <=> dataset_list'[i].error
                              # Some("The data array for this acquisition is improper"))]_vars


-----------------------------------------------------------------------------
(* C28 *)

\* C28: when datatype_suffix_identification has returned, a unique series
\* whose type is a datatype and a suffix holds no error: what the check for
\* localizers or an entry that failed wrote is not left on a series that a
\* later entry confirms.
C28_ConfirmedSeriesHasNoError ==
    Classified =>
        \A n \in 1..Len(unique_series) :
            Series(n).type # "exclude" => Series(n).error = None


-----------------------------------------------------------------------------
(* C29: uploads of up to three acquisitions of a field map: the phase image *)
(* of the second echo, named as phase2 or as phasediff, the phase image of  *)
(* the first echo and an anatomical image                                   *)

WrapScans ==
    LET scan(text, tail, kv) ==
            [ dir |-> "", tail |-> tail, bvec |-> FALSE,
              kv |-> kv @@ [SeriesDescription |-> Py(text), Manufacturer |-> "Siemens"],
              image |-> [ndim |-> 3, volumes |-> 1, dtype |-> "int16", negdim |-> FALSE] ]
    IN  << scan("phase2", "_e2_ph.json", [EchoNumber |-> 2]),
           scan("phasediff", "_e2_ph.json", [EchoNumber |-> 2]),
           scan("xyz", "_e1_ph.json", [EchoNumber |-> 1]),
           scan("t1w", ".json", <<>>) >>

InitWrap == Started(UploadsOf(WrapScans, MaxParts))

SpecWrap == InitWrap /\ [][NextClass]_vars

\* the unique series two positions before series n is there and is a phase
\* image of the first echo
FirstEchoTwoBefore(n) ==
    n >= 3 /\ Contains(Series(n - 2).json_path, Py("_e1_ph"))

\* the message of series n reports the failure of the predicate of
\* fmap/phasediff on the series two positions before
PhasediffRefused(n) ==
    /\ Series(n).type = "exclude"
    /\ Series(n).message # None
    /\ Series(n).message[1].text = "thought to be"
    /\ Series(n).message[1].suffix = "phasediff"
    /\ \E j \in 1..Len(Series(n).message[1].conditions) :
           Series(n).message[1].conditions[j][2] =
               "'_e1_ph' not in dataset_list_unique_series[index - 2]['json_path']"

\* C29: the predicates of fmap/phasediff and fmap/phase2 on another series
\* are decided by the series two positions before and by no later one: a
\* series confirmed as fmap/phase2, and one refused as fmap/phasediff for
\* that predicate, has a phase image of the first echo two positions before.
C29_OnlyTwoPositionsBefore ==
    Classified =>
        \A n \in 1..Len(unique_series) :
            /\ (scanned[n].ran /\ Series(n).type = "fmap/phase2") => FirstEchoTwoBefore(n)
            /\ PhasediffRefused(n) => FirstEchoTwoBefore(n)


-----------------------------------------------------------------------------
(* C30 *)

\* C30: when entity_labels_identification is entered, the datatype and the
\* suffix of every unique series that is not excluded are a pair of the
\* catalog, so that the lookup of l. 1867 finds its accepted entities, also
\* for a pair that Phase A took from the path of the sidecar.
C30_FilteredPairInCatalog ==
    stage = "entity_labels_identification" =>
        \A n \in 1..Len(unique_series) :
            Series(n).type # "exclude" => InCatalog(Series(n).datatype, Series(n).suffix)

====
